---- MODULE Spec2Model ----
(***************************************************************************)
(* A model of the IEC 104 codec of ThomasTeodorowicz/iec104:               *)
(*   src/iec104/wrapper.py            IEC104Wrapper   (the encoder)        *)
(*   src/iec104/python3/unwrapper.py  IEC104Unwrapper (the decoder)        *)
(*                                                                         *)
(* Python values are records [k |-> kind, v |-> value]; kind is the Python *)
(* type, so that `type(x) is int` is x.k = "int".  A Python str is kept in *)
(* one of two forms: kind "str" holds a TLA+ string (strings the code only *)
(* compares for equality or returns: names, error texts), kind "chars"     *)
(* holds the sequence of its code points (strings whose content the code   *)
(* looks into).  A call that ends in a Python exception yields kind        *)
(* "raise".  bytes are sequences of integers 0..255.                       *)
(***************************************************************************)
EXTENDS Integers, Sequences, FiniteSets, TLC

VARIABLES
    information_object_address, \* IEC104Wrapper.information_object_address
    emitted,      \* history: the IOAs emitted so far, as the 3 bytes of each
    overridden,   \* history: set_information_object_address was called
    pc,           \* "idle" | "call" | "done": where the caller stands
    call,         \* the operation the caller invokes, with its arguments
    ret,          \* what the last operation returned
    pre,          \* history: the counter when the last operation started
    steps,        \* history: operations started in this session
    produced,     \* history: of each ASDU encoded, its first IOA and how many it covers
    second,       \* a second IEC104Wrapper, of another flow
    made          \* history: of each call of a flow, the flow, the call and what it returned

vars == <<information_object_address, emitted, overridden, pc, call, ret, pre, steps, produced, second, made>>

---------------------------------------------------------------------------
(* Python values *)

PyInt(n) == [k |-> "int", v |-> n]
PyStr(s) == [k |-> "str", v |-> s]
PyChars(s) == [k |-> "chars", v |-> s]
PyBytes(b) == [k |-> "bytes", v |-> b]
PyTuple(t) == [k |-> "tuple", v |-> t]
PyList(l) == [k |-> "list", v |-> l]
PyRaise(e) == [k |-> "raise", v |-> e]
PyNone == [k |-> "none", v |-> 0]

\* A Python float: the binary32 value nearest to it (as its 4 little-endian
\* bytes) and whether the float equals that binary32 value exactly. A finite
\* float too large for binary32 (1e40) has an infinity as its nearest value
\* and does not equal it: PyFloat(FALSE, the bytes of that infinity). The
\* infinities themselves are exact.
PyFloat(exact, bits) == [k |-> "float", v |-> <<exact, bits>>]

IsStr(x) == x.k \in {"str", "chars"}
IsInt(x) == x.k = "int"

\* `x == n` for n = 0 or 1: an int equals n when it is n, a float when it is
\* n.0 (0.0 or -0.0 for 0); no other value of the model equals a number
Eq(x, n) ==
    \/ x.k = "int" /\ x.v = n
    \/ /\ x.k = "float" /\ x.v[1]
       /\ x.v[2] \in (IF n = 0 THEN {<<0, 0, 0, 0>>, <<0, 0, 0, 128>>}
                      ELSE IF n = 1 THEN {<<0, 0, 128, 63>>} ELSE {})

\* `x in [0,1]`: the list is searched with ==
In01(x) == Eq(x, 0) \/ Eq(x, 1)

\* what a caller tests a result for before it goes on: an ERROR string is
\* returned by the caller as it is, an exception passes through the caller
Stops(x) == IsStr(x) \/ x.k = "raise"

\* `x[i]` for i = 0, 1, 2, ...: the member of a tuple or list, the character
\* of a string (the strings a caller passes are held as their characters),
\* the byte of a byte string as an integer; IndexError past the last one, and
\* TypeError when x is a number or None
Item(x, i) ==
    IF x.k = "raise" THEN x
    ELSE IF x.k \notin {"tuple", "list", "chars", "bytes"} THEN PyRaise("TypeError")
    ELSE IF i >= Len(x.v) THEN PyRaise("IndexError")
    ELSE IF x.k = "chars" THEN [k |-> "chars", v |-> <<x.v[i + 1]>>]
    ELSE IF x.k = "bytes" THEN [k |-> "int", v |-> x.v[i + 1]]
    ELSE x.v[i + 1]

\* the arguments of a call are evaluated from left to right: the first of
\* them that raises, or None when none does
Raised(args) ==
    IF \E i \in 1..Len(args) : args[i].k = "raise"
    THEN args[CHOOSE i \in 1..Len(args) :
                  args[i].k = "raise" /\ \A j \in 1..(i - 1) : args[j].k # "raise"]
    ELSE [k |-> "none", v |-> 0]

---------------------------------------------------------------------------
(* Module constants of wrapper.py and python3/unwrapper.py *)

TESTFR_CON == 131
TESTFR_ACT == 67
STOPDT_CON == 35
STOPDT_ACT == 19
STARTDT_CON == 11
STARTDT_ACT == 7
NO_FUNC == 3

M_BO_NA_1 == 7
M_ME_NC_1 == 13
C_SC_NA_1 == 45
C_IC_NA_1 == 100
C_RD_NA_1 == 102

PERIODIC == 1
SPONTANEOUS == 3
REQUEST_REQUESTED == 5
ACTIVATION == 6
ACTIVATION_CONFIRMATION == 7
RETURN_INFORMATION_BY_REMOTE_COMMAND == 11

INFORMATION_OBJECT_ADDRESS_LENGTH == 3
M_BO_NA_1_LENGTH == 5
M_ME_NC_1_LENGTH == 5
APDU_MIN_LEN == 10

---------------------------------------------------------------------------
(* String literals of the code, as code points *)

s_periodic == <<112, 101, 114, 105, 111, 100, 105, 99>>
s_cyclic == <<99, 121, 99, 108, 105, 99>>
s_spontaneous == <<115, 112, 111, 110, 116, 97, 110, 101, 111, 117, 115>>
s_request == <<114, 101, 113, 117, 101, 115, 116>>
s_requested == <<114, 101, 113, 117, 101, 115, 116, 101, 100>>
s_activation_confirmation == <<97, 99, 116, 105, 118, 97, 116, 105, 111, 110, 32, 99, 111, 110, 102, 105, 114, 109, 97, 116, 105, 111, 110>>
s_activation == <<97, 99, 116, 105, 118, 97, 116, 105, 111, 110>>
s_return_information == <<114, 101, 116, 117, 114, 110, 32, 105, 110, 102, 111, 114, 109, 97, 116, 105, 111, 110>>
s_remote_command == <<114, 101, 109, 111, 116, 101, 32, 99, 111, 109, 109, 97, 110, 100>>
s_con == <<99, 111, 110>>
s_test == <<116, 101, 115, 116>>
s_stop == <<115, 116, 111, 112>>
s_start == <<115, 116, 97, 114, 116>>
s_act == <<97, 99, 116>>

\* `sub in s` for two Python strings
Contains(sub, s) ==
    \E i \in 0..(Len(s) - Len(sub)) : SubSeq(s, i + 1, i + Len(sub)) = sub

\* str.lower() follows the Unicode tables of the interpreter (Unicode 14).
\* The code points with a one-character lower case, in runs of four numbers
\* first, last, step, offset: first, first + step, ..., last go to
\* themselves + offset.
LowerRuns ==
    <<
       65, 90, 1, 32,  192, 214, 1, 32,  216, 222, 1, 32,  256, 302, 2, 1,
       306, 310, 2, 1,  313, 327, 2, 1,  330, 374, 2, 1,  376, 376, 1, -121,
       377, 381, 2, 1,  385, 385, 1, 210,  386, 388, 2, 1,  390, 390, 1, 206,
       391, 391, 1, 1,  393, 394, 1, 205,  395, 395, 1, 1,  398, 398, 1, 79,
       399, 399, 1, 202,  400, 400, 1, 203,  401, 401, 1, 1,  403, 403, 1, 205,
       404, 404, 1, 207,  406, 406, 1, 211,  407, 407, 1, 209,  408, 408, 1, 1,
       412, 412, 1, 211,  413, 413, 1, 213,  415, 415, 1, 214,  416, 420, 2, 1,
       422, 422, 1, 218,  423, 423, 1, 1,  425, 425, 1, 218,  428, 428, 1, 1,
       430, 430, 1, 218,  431, 431, 1, 1,  433, 434, 1, 217,  435, 437, 2, 1,
       439, 439, 1, 219,  440, 440, 1, 1,  444, 444, 1, 1,  452, 452, 1, 2,
       453, 453, 1, 1,  455, 455, 1, 2,  456, 456, 1, 1,  458, 458, 1, 2,
       459, 475, 2, 1,  478, 494, 2, 1,  497, 497, 1, 2,  498, 500, 2, 1,
       502, 502, 1, -97,  503, 503, 1, -56,  504, 542, 2, 1,  544, 544, 1, -130,
       546, 562, 2, 1,  570, 570, 1, 10795,  571, 571, 1, 1,  573, 573, 1, -163,
       574, 574, 1, 10792,  577, 577, 1, 1,  579, 579, 1, -195,  580, 580, 1, 69,
       581, 581, 1, 71,  582, 590, 2, 1,  880, 882, 2, 1,  886, 886, 1, 1,
       895, 895, 1, 116,  902, 902, 1, 38,  904, 906, 1, 37,  908, 908, 1, 64,
       910, 911, 1, 63,  913, 929, 1, 32,  931, 939, 1, 32,  975, 975, 1, 8,
       984, 1006, 2, 1,  1012, 1012, 1, -60,  1015, 1015, 1, 1,  1017, 1017, 1, -7,
       1018, 1018, 1, 1,  1021, 1023, 1, -130,  1024, 1039, 1, 80,  1040, 1071, 1, 32,
       1120, 1152, 2, 1,  1162, 1214, 2, 1,  1216, 1216, 1, 15,  1217, 1229, 2, 1,
       1232, 1326, 2, 1,  1329, 1366, 1, 48,  4256, 4293, 1, 7264,  4295, 4295, 1, 7264,
       4301, 4301, 1, 7264,  5024, 5103, 1, 38864,  5104, 5109, 1, 8,  7312, 7354, 1, -3008,
       7357, 7359, 1, -3008,  7680, 7828, 2, 1,  7838, 7838, 1, -7615,  7840, 7934, 2, 1,
       7944, 7951, 1, -8,  7960, 7965, 1, -8,  7976, 7983, 1, -8,  7992, 7999, 1, -8,
       8008, 8013, 1, -8,  8025, 8031, 2, -8,  8040, 8047, 1, -8,  8072, 8079, 1, -8,
       8088, 8095, 1, -8,  8104, 8111, 1, -8,  8120, 8121, 1, -8,  8122, 8123, 1, -74,
       8124, 8124, 1, -9,  8136, 8139, 1, -86,  8140, 8140, 1, -9,  8152, 8153, 1, -8,
       8154, 8155, 1, -100,  8168, 8169, 1, -8,  8170, 8171, 1, -112,  8172, 8172, 1, -7,
       8184, 8185, 1, -128,  8186, 8187, 1, -126,  8188, 8188, 1, -9,  8486, 8486, 1, -7517,
       8490, 8490, 1, -8383,  8491, 8491, 1, -8262,  8498, 8498, 1, 28,  8544, 8559, 1, 16,
       8579, 8579, 1, 1,  9398, 9423, 1, 26,  11264, 11311, 1, 48,  11360, 11360, 1, 1,
       11362, 11362, 1, -10743,  11363, 11363, 1, -3814,  11364, 11364, 1, -10727,  11367, 11371, 2, 1,
       11373, 11373, 1, -10780,  11374, 11374, 1, -10749,  11375, 11375, 1, -10783,  11376, 11376, 1, -10782,
       11378, 11378, 1, 1,  11381, 11381, 1, 1,  11390, 11391, 1, -10815,  11392, 11490, 2, 1,
       11499, 11501, 2, 1,  11506, 11506, 1, 1,  42560, 42604, 2, 1,  42624, 42650, 2, 1,
       42786, 42798, 2, 1,  42802, 42862, 2, 1,  42873, 42875, 2, 1,  42877, 42877, 1, -35332,
       42878, 42886, 2, 1,  42891, 42891, 1, 1,  42893, 42893, 1, -42280,  42896, 42898, 2, 1,
       42902, 42920, 2, 1,  42922, 42922, 1, -42308,  42923, 42923, 1, -42319,  42924, 42924, 1, -42315,
       42925, 42925, 1, -42305,  42926, 42926, 1, -42308,  42928, 42928, 1, -42258,  42929, 42929, 1, -42282,
       42930, 42930, 1, -42261,  42931, 42931, 1, 928,  42932, 42946, 2, 1,  42948, 42948, 1, -48,
       42949, 42949, 1, -42307,  42950, 42950, 1, -35384,  42951, 42953, 2, 1,  42960, 42960, 1, 1,
       42966, 42968, 2, 1,  42997, 42997, 1, 1,  65313, 65338, 1, 32,  66560, 66599, 1, 40,
       66736, 66771, 1, 40,  66928, 66964, 2, 39,  66929, 66937, 2, 39,  66941, 66953, 2, 39,
       66957, 66961, 2, 39,  66965, 66965, 1, 39,  68736, 68786, 1, 64,  71840, 71871, 1, 32,
       93760, 93791, 1, 32,  125184, 125217, 1, 34 >>

\* the case-ignorable code points, in runs of two numbers first, last
CaseIgnorableRuns ==
    <<
       39, 39,  46, 46,  58, 58,  94, 94,  96, 96,  168, 168,
       173, 173,  175, 175,  180, 180,  183, 184,  688, 879,  884, 885,
       890, 890,  900, 901,  903, 903,  1155, 1161,  1369, 1369,  1375, 1375,
       1425, 1469,  1471, 1471,  1473, 1474,  1476, 1477,  1479, 1479,  1524, 1524,
       1536, 1541,  1552, 1562,  1564, 1564,  1600, 1600,  1611, 1631,  1648, 1648,
       1750, 1757,  1759, 1768,  1770, 1773,  1807, 1807,  1809, 1809,  1840, 1866,
       1958, 1968,  2027, 2037,  2042, 2042,  2045, 2045,  2070, 2093,  2137, 2139,
       2184, 2184,  2192, 2193,  2200, 2207,  2249, 2306,  2362, 2362,  2364, 2364,
       2369, 2376,  2381, 2381,  2385, 2391,  2402, 2403,  2417, 2417,  2433, 2433,
       2492, 2492,  2497, 2500,  2509, 2509,  2530, 2531,  2558, 2558,  2561, 2562,
       2620, 2620,  2625, 2626,  2631, 2632,  2635, 2637,  2641, 2641,  2672, 2673,
       2677, 2677,  2689, 2690,  2748, 2748,  2753, 2757,  2759, 2760,  2765, 2765,
       2786, 2787,  2810, 2815,  2817, 2817,  2876, 2876,  2879, 2879,  2881, 2884,
       2893, 2893,  2901, 2902,  2914, 2915,  2946, 2946,  3008, 3008,  3021, 3021,
       3072, 3072,  3076, 3076,  3132, 3132,  3134, 3136,  3142, 3144,  3146, 3149,
       3157, 3158,  3170, 3171,  3201, 3201,  3260, 3260,  3263, 3263,  3270, 3270,
       3276, 3277,  3298, 3299,  3328, 3329,  3387, 3388,  3393, 3396,  3405, 3405,
       3426, 3427,  3457, 3457,  3530, 3530,  3538, 3540,  3542, 3542,  3633, 3633,
       3636, 3642,  3654, 3662,  3761, 3761,  3764, 3772,  3782, 3782,  3784, 3789,
       3864, 3865,  3893, 3893,  3895, 3895,  3897, 3897,  3953, 3966,  3968, 3972,
       3974, 3975,  3981, 3991,  3993, 4028,  4038, 4038,  4141, 4144,  4146, 4151,
       4153, 4154,  4157, 4158,  4184, 4185,  4190, 4192,  4209, 4212,  4226, 4226,
       4229, 4230,  4237, 4237,  4253, 4253,  4348, 4348,  4957, 4959,  5906, 5908,
       5938, 5939,  5970, 5971,  6002, 6003,  6068, 6069,  6071, 6077,  6086, 6086,
       6089, 6099,  6103, 6103,  6109, 6109,  6155, 6159,  6211, 6211,  6277, 6278,
       6313, 6313,  6432, 6434,  6439, 6440,  6450, 6450,  6457, 6459,  6679, 6680,
       6683, 6683,  6742, 6742,  6744, 6750,  6752, 6752,  6754, 6754,  6757, 6764,
       6771, 6780,  6783, 6783,  6823, 6823,  6832, 6862,  6912, 6915,  6964, 6964,
       6966, 6970,  6972, 6972,  6978, 6978,  7019, 7027,  7040, 7041,  7074, 7077,
       7080, 7081,  7083, 7085,  7142, 7142,  7144, 7145,  7149, 7149,  7151, 7153,
       7212, 7219,  7222, 7223,  7288, 7293,  7376, 7378,  7380, 7392,  7394, 7400,
       7405, 7405,  7412, 7412,  7416, 7417,  7468, 7530,  7544, 7544,  7579, 7679,
       8125, 8125,  8127, 8129,  8141, 8143,  8157, 8159,  8173, 8175,  8189, 8190,
       8203, 8207,  8216, 8217,  8228, 8228,  8231, 8231,  8234, 8238,  8288, 8292,
       8294, 8303,  8305, 8305,  8319, 8319,  8336, 8348,  8400, 8432,  11388, 11389,
       11503, 11505,  11631, 11631,  11647, 11647,  11744, 11775,  11823, 11823,  12293, 12293,
       12330, 12333,  12337, 12341,  12347, 12347,  12441, 12446,  12540, 12542,  40981, 40981,
       42232, 42237,  42508, 42508,  42607, 42610,  42612, 42621,  42623, 42623,  42652, 42655,
       42736, 42737,  42752, 42785,  42864, 42864,  42888, 42890,  42994, 42996,  43000, 43001,
       43010, 43010,  43014, 43014,  43019, 43019,  43045, 43046,  43052, 43052,  43204, 43205,
       43232, 43249,  43263, 43263,  43302, 43309,  43335, 43345,  43392, 43394,  43443, 43443,
       43446, 43449,  43452, 43453,  43471, 43471,  43493, 43494,  43561, 43566,  43569, 43570,
       43573, 43574,  43587, 43587,  43596, 43596,  43632, 43632,  43644, 43644,  43696, 43696,
       43698, 43700,  43703, 43704,  43710, 43711,  43713, 43713,  43741, 43741,  43756, 43757,
       43763, 43764,  43766, 43766,  43867, 43871,  43881, 43883,  44005, 44005,  44008, 44008,
       44013, 44013,  64286, 64286,  64434, 64450,  65024, 65039,  65043, 65043,  65056, 65071,
       65106, 65106,  65109, 65109,  65279, 65279,  65287, 65287,  65294, 65294,  65306, 65306,
       65342, 65342,  65344, 65344,  65392, 65392,  65438, 65439,  65507, 65507,  65529, 65531,
       66045, 66045,  66272, 66272,  66422, 66426,  67456, 67461,  67463, 67504,  67506, 67514,
       68097, 68099,  68101, 68102,  68108, 68111,  68152, 68154,  68159, 68159,  68325, 68326,
       68900, 68903,  69291, 69292,  69446, 69456,  69506, 69509,  69633, 69633,  69688, 69702,
       69744, 69744,  69747, 69748,  69759, 69761,  69811, 69814,  69817, 69818,  69821, 69821,
       69826, 69826,  69837, 69837,  69888, 69890,  69927, 69931,  69933, 69940,  70003, 70003,
       70016, 70017,  70070, 70078,  70089, 70092,  70095, 70095,  70191, 70193,  70196, 70196,
       70198, 70199,  70206, 70206,  70367, 70367,  70371, 70378,  70400, 70401,  70459, 70460,
       70464, 70464,  70502, 70508,  70512, 70516,  70712, 70719,  70722, 70724,  70726, 70726,
       70750, 70750,  70835, 70840,  70842, 70842,  70847, 70848,  70850, 70851,  71090, 71093,
       71100, 71101,  71103, 71104,  71132, 71133,  71219, 71226,  71229, 71229,  71231, 71232,
       71339, 71339,  71341, 71341,  71344, 71349,  71351, 71351,  71453, 71455,  71458, 71461,
       71463, 71467,  71727, 71735,  71737, 71738,  71995, 71996,  71998, 71998,  72003, 72003,
       72148, 72151,  72154, 72155,  72160, 72160,  72193, 72202,  72243, 72248,  72251, 72254,
       72263, 72263,  72273, 72278,  72281, 72283,  72330, 72342,  72344, 72345,  72752, 72758,
       72760, 72765,  72767, 72767,  72850, 72871,  72874, 72880,  72882, 72883,  72885, 72886,
       73009, 73014,  73018, 73018,  73020, 73021,  73023, 73029,  73031, 73031,  73104, 73105,
       73109, 73109,  73111, 73111,  73459, 73460,  78896, 78904,  92912, 92916,  92976, 92982,
       92992, 92995,  94031, 94031,  94095, 94111,  94176, 94177,  94179, 94180,  110576, 110579,
       110581, 110587,  110589, 110590,  113821, 113822,  113824, 113827,  118528, 118573,  118576, 118598,
       119143, 119145,  119155, 119170,  119173, 119179,  119210, 119213,  119362, 119364,  121344, 121398,
       121403, 121452,  121461, 121461,  121476, 121476,  121499, 121503,  121505, 121519,  122880, 122886,
       122888, 122904,  122907, 122913,  122915, 122916,  122918, 122922,  123184, 123197,  123566, 123566,
       123628, 123631,  125136, 125142,  125252, 125259,  127995, 127999,  917505, 917505,  917536, 917631,
       917760, 917999 >>

\* the cased code points that are not case-ignorable, in runs first, last
CasedRuns ==
    <<
       65, 90,  97, 122,  170, 170,  181, 181,  186, 186,  192, 214,
       216, 246,  248, 442,  444, 447,  452, 659,  661, 687,  880, 883,
       886, 887,  891, 893,  895, 895,  902, 902,  904, 906,  908, 908,
       910, 929,  931, 1013,  1015, 1153,  1162, 1327,  1329, 1366,  1376, 1416,
       4256, 4293,  4295, 4295,  4301, 4301,  4304, 4346,  4349, 4351,  5024, 5109,
       5112, 5117,  7296, 7304,  7312, 7354,  7357, 7359,  7424, 7467,  7531, 7543,
       7545, 7578,  7680, 7957,  7960, 7965,  7968, 8005,  8008, 8013,  8016, 8023,
       8025, 8025,  8027, 8027,  8029, 8029,  8031, 8061,  8064, 8116,  8118, 8124,
       8126, 8126,  8130, 8132,  8134, 8140,  8144, 8147,  8150, 8155,  8160, 8172,
       8178, 8180,  8182, 8188,  8450, 8450,  8455, 8455,  8458, 8467,  8469, 8469,
       8473, 8477,  8484, 8484,  8486, 8486,  8488, 8488,  8490, 8493,  8495, 8500,
       8505, 8505,  8508, 8511,  8517, 8521,  8526, 8526,  8544, 8575,  8579, 8580,
       9398, 9449,  11264, 11387,  11390, 11492,  11499, 11502,  11506, 11507,  11520, 11557,
       11559, 11559,  11565, 11565,  42560, 42605,  42624, 42651,  42786, 42863,  42865, 42887,
       42891, 42894,  42896, 42954,  42960, 42961,  42963, 42963,  42965, 42969,  42997, 42998,
       43002, 43002,  43824, 43866,  43872, 43880,  43888, 43967,  64256, 64262,  64275, 64279,
       65313, 65338,  65345, 65370,  66560, 66639,  66736, 66771,  66776, 66811,  66928, 66938,
       66940, 66954,  66956, 66962,  66964, 66965,  66967, 66977,  66979, 66993,  66995, 67001,
       67003, 67004,  68736, 68786,  68800, 68850,  71840, 71903,  93760, 93823,  119808, 119892,
       119894, 119964,  119966, 119967,  119970, 119970,  119973, 119974,  119977, 119980,  119982, 119993,
       119995, 119995,  119997, 120003,  120005, 120069,  120071, 120074,  120077, 120084,  120086, 120092,
       120094, 120121,  120123, 120126,  120128, 120132,  120134, 120134,  120138, 120144,  120146, 120485,
       120488, 120512,  120514, 120538,  120540, 120570,  120572, 120596,  120598, 120628,  120630, 120654,
       120656, 120686,  120688, 120712,  120714, 120744,  120746, 120770,  120772, 120779,  122624, 122633,
       122635, 122654,  125184, 125251,  127280, 127305,  127312, 127337,  127344, 127369 >>

InRuns(c, runs) ==
    \E n \in 1..(Len(runs) \div 2) : runs[2 * n - 1] <= c /\ c <= runs[2 * n]

\* the lower case of one code point outside any context: U+0130 becomes two
\* code points, all others one
Shifted(c, runs) ==
    LET hit == {n \in 1..(Len(runs) \div 4) :
                   /\ runs[4 * n - 3] <= c /\ c <= runs[4 * n - 2]
                   /\ (c - runs[4 * n - 3]) % runs[4 * n - 1] = 0}
    IN IF hit = {} THEN c ELSE c + runs[4 * (CHOOSE n \in hit : TRUE)]

lower_cp(c) == IF c = 304 THEN <<105, 775>> ELSE <<Shifted(c, LowerRuns)>>

\* the capital sigma at s[i] ends a word: the nearest character before it
\* that is not case-ignorable is cased, and the nearest one after it that is
\* not case-ignorable, when there is one, is not cased
Final(s, i, ignorable, cased) ==
    LET others == {j \in 1..Len(s) : j # i /\ ~InRuns(s[j], ignorable)}
        before == {j \in others : j < i}
        after == {j \in others : j > i}
    IN  /\ before # {}
        /\ \A j \in before : (\A k \in before : k <= j) => InRuns(s[j], cased)
        /\ \A j \in after : (\A k \in after : j <= k) => ~InRuns(s[j], cased)

final_sigma(s, i) == Final(s, i, CaseIgnorableRuns, CasedRuns)

\* str.lower(): s from its i-th character on
RECURSIVE lower_from(_, _)
lower_from(s, i) ==
    IF i > Len(s) THEN <<>>
    ELSE (IF s[i] = 931 THEN (IF final_sigma(s, i) THEN <<962>> ELSE <<963>>)
          ELSE lower_cp(s[i])) \o lower_from(s, i + 1)

lower(s) == lower_from(s, 1)

\* str.encode(): UTF-8 of one code point, then of a string. A surrogate
\* (U+D800..U+DFFF) has no UTF-8 form: UnicodeEncodeError.
utf8_encode_cp(c) ==
    IF c \in 55296..57343 THEN PyRaise("UnicodeEncodeError")
    ELSE IF c < 128 THEN PyBytes(<<c>>)
    ELSE IF c < 2048 THEN PyBytes(<<192 + (c \div 64), 128 + (c % 64)>>)
    ELSE IF c < 65536
    THEN PyBytes(<<224 + (c \div 4096), 128 + ((c \div 64) % 64), 128 + (c % 64)>>)
    ELSE PyBytes(<<240 + (c \div 262144), 128 + ((c \div 4096) % 64),
                   128 + ((c \div 64) % 64), 128 + (c % 64)>>)

RECURSIVE encode(_)
encode(s) ==
    IF s = <<>> THEN PyBytes(<<>>)
    ELSE LET first == utf8_encode_cp(Head(s))
             rest == encode(Tail(s))
         IN IF first.k = "raise" THEN first
            ELSE IF rest.k = "raise" THEN rest
            ELSE PyBytes(first.v \o rest.v)

---------------------------------------------------------------------------
(* struct.pack *)

\* '<H': an unsigned 16-bit integer, little-endian
pack_H(n) == <<n % 256, (n \div 256) % 256>>

\* '<4s': the first 4 bytes of b, padded with null bytes
pack_4s(b) == [i \in 1..4 |-> IF i <= Len(b) THEN b[i] ELSE 0]

\* the 4 bytes are those of an infinity
IsInfinity(bits) == bits \in {<<0, 0, 128, 127>>, <<0, 0, 128, 255>>}

\* '<f': the binary32 nearest to the float, little-endian; OverflowError
\* ("float too large to pack with f format") for a finite float that the
\* rounding takes out of the binary32 range
pack_f(x) ==
    IF ~x.v[1] /\ IsInfinity(x.v[2]) THEN PyRaise("OverflowError")
    ELSE PyBytes(x.v[2])

---------------------------------------------------------------------------
(* IEC104Wrapper: the frame and the APDU header *)

\* create_apdu_header with the limit one byte further
create_apdu_header_254(apdu) ==
    IF apdu.k # "bytes" THEN PyStr("ERROR: An APDU has to be a bytestring.")
    ELSE IF Len(apdu.v) > 254 THEN PyStr("ERROR: APDU too long.")
    ELSE PyBytes(<<104>> \o <<Len(apdu.v)>>)

create_apdu_header(apdu) ==
    IF apdu.k # "bytes" THEN PyStr("ERROR: An APDU has to be a bytestring.")
    ELSE IF Len(apdu.v) > 253 THEN PyStr("ERROR: APDU too long.")
    ELSE PyBytes(<<104>> \o <<Len(apdu.v)>>)

\* i_frame without the shift that clears the low bit of each word
i_frame_unshifted(ssn, rsn) ==
    IF ssn.k # "int" \/ ssn.v < 0 \/ ssn.v > 32767
    THEN PyStr("ERROR: Send sequence number has to be an integer between 0 and 32767.")
    ELSE IF rsn.k # "int" \/ rsn.v < 0 \/ rsn.v > 32767
    THEN PyStr("ERROR: Receive sequence number has to be an integer between 0 and 32767.")
    ELSE PyBytes(pack_H(ssn.v) \o pack_H(rsn.v))

i_frame(ssn, rsn) ==
    IF ssn.k # "int" \/ ssn.v < 0 \/ ssn.v > 32767
    THEN PyStr("ERROR: Send sequence number has to be an integer between 0 and 32767.")
    ELSE IF rsn.k # "int" \/ rsn.v < 0 \/ rsn.v > 32767
    THEN PyStr("ERROR: Receive sequence number has to be an integer between 0 and 32767.")
    ELSE PyBytes(pack_H(ssn.v * 2) \o pack_H(rsn.v * 2))

s_frame(rsn) ==
    IF rsn.k # "int" \/ rsn.v < 0 \/ rsn.v > 32767
    THEN PyStr("ERROR: Receive sequence number has to be an integer between 0 and 32767.")
    ELSE PyBytes(<<1, 0>> \o pack_H(rsn.v * 2))

\* The byte u_frame finds for the lowered name f. The ifs of each block run
\* in the order test, stop, start and the "act" block runs after the "con"
\* block: the last assignment wins.
function_byte(f) ==
    LET con == IF Contains(s_con, f)
               THEN IF Contains(s_start, f) THEN STARTDT_CON
                    ELSE IF Contains(s_stop, f) THEN STOPDT_CON
                    ELSE IF Contains(s_test, f) THEN TESTFR_CON
                    ELSE NO_FUNC
               ELSE NO_FUNC
        byte == IF Contains(s_act, f)
                THEN IF Contains(s_start, f) THEN STARTDT_ACT
                     ELSE IF Contains(s_stop, f) THEN STOPDT_ACT
                     ELSE IF Contains(s_test, f) THEN TESTFR_ACT
                     ELSE con
                ELSE con
    IN byte

\* What is not a str has no lower(), except a bytestring: that one has, and
\* then `"con" in function` looks for a str in bytes, a TypeError.
u_frame(function) ==
    IF function.k = "bytes" THEN PyRaise("TypeError")
    ELSE IF function.k # "chars" THEN PyRaise("AttributeError")
    ELSE PyBytes(<<function_byte(lower(function.v)), 0>> \o pack_H(0))

wrap_frame(frame, ssn, rsn) ==
    IF frame = "i-frame" THEN i_frame(ssn, rsn)
    ELSE IF frame = "s-frame" THEN s_frame(rsn)
    ELSE IF frame = "u-frame" THEN u_frame(ssn)
    ELSE PyStr("ERROR: No valid frame format was given.")

---------------------------------------------------------------------------
(* IEC104Wrapper: the ASDU header fields *)

wrap_asdu_type(asdu_type) ==
    IF asdu_type = "M_BO_NA_1" THEN PyInt(M_BO_NA_1)
    ELSE IF asdu_type = "M_ME_NC_1" THEN PyInt(M_ME_NC_1)
    ELSE IF asdu_type = "C_SC_NA_1" THEN PyInt(C_SC_NA_1)
    ELSE IF asdu_type = "C_IC_NA_1" THEN PyInt(C_IC_NA_1)
    ELSE IF asdu_type = "C_RD_NA_1" THEN PyInt(C_RD_NA_1)
    ELSE PyStr("ERROR: The ASDU type was not recognized.")

wrap_variable_structure_qualifier(type_id, sequence, message) ==
    IF type_id.k # "int"
    THEN PyStr("ERROR: The type identification has to be an integer.")
    ELSE IF ~In01(sequence) THEN PyStr("ERROR: Sequence bit has to be 0 or 1.")
    ELSE IF message.k # "list" \/ Len(message.v) > 128
    THEN PyStr("ERROR: The message has to be a list containing less than 128 objects/elements.")
    ELSE IF type_id.v \in {M_BO_NA_1, M_ME_NC_1}
    THEN PyInt(Len(message.v) + (IF Eq(sequence, 1) THEN 128 ELSE 0))
    ELSE IF type_id.v \in {C_SC_NA_1, C_IC_NA_1, C_RD_NA_1} THEN PyInt(1)
    ELSE PyStr("ERROR: The type identification was not recognized.")

\* The members of cause_of_transmission are read one after the other, each
\* when its test is reached: a tuple that ends before the member read raises
\* IndexError.  The first member is looked into, so it is a "chars" string.
wrap_cause_of_transmission(cause_of_transmission, originator_address) ==
    IF cause_of_transmission.k # "tuple"
    THEN PyStr("ERROR: Cause of transmission also needs a P/N bit and Testbit.")
    ELSE IF Item(cause_of_transmission, 0).k = "raise" THEN Item(cause_of_transmission, 0)
    ELSE IF ~IsStr(Item(cause_of_transmission, 0))
    THEN PyStr("ERROR: Cause of transmission has to be a string.")
    ELSE IF Item(cause_of_transmission, 1).k = "raise" THEN Item(cause_of_transmission, 1)
    ELSE IF ~In01(Item(cause_of_transmission, 1)) THEN PyStr("ERROR: P/N bit has to be 0 or 1.")
    ELSE IF Item(cause_of_transmission, 2).k = "raise" THEN Item(cause_of_transmission, 2)
    ELSE IF ~In01(Item(cause_of_transmission, 2)) THEN PyStr("ERROR: Testbit has to be 0 or 1.")
    ELSE
    LET c == cause_of_transmission.v IN
    IF originator_address.k # "int" \/ originator_address.v < 0 \/ originator_address.v > 255
    THEN PyStr("ERROR: Originator address has to be an integer between 0 and 255.")
    ELSE
    LET s == c[1].v
        cause == IF Contains(s_periodic, s) \/ Contains(s_cyclic, s) THEN PERIODIC
                 ELSE IF Contains(s_spontaneous, s) THEN SPONTANEOUS
                 ELSE IF Contains(s_request, s) \/ Contains(s_requested, s) THEN REQUEST_REQUESTED
                 ELSE IF Contains(s_activation_confirmation, s) THEN ACTIVATION_CONFIRMATION
                 ELSE IF Contains(s_activation, s) THEN ACTIVATION
                 ELSE IF Contains(s_return_information, s) /\ Contains(s_remote_command, s)
                      THEN RETURN_INFORMATION_BY_REMOTE_COMMAND
                 ELSE 0
        pn == IF Eq(c[2], 1) THEN 64 ELSE 0
        test == IF Eq(c[3], 1) THEN 128 ELSE 0
    IN IF cause = 0 THEN PyStr("ERROR: No cause of transmission was found.")
       ELSE PyBytes(<<cause + pn + test, originator_address.v>>)

\* wrap_common_address that lets 65536 through
wrap_common_address_wide(common_address) ==
    IF common_address.k # "int" \/ common_address.v < 0 \/ common_address.v > 65536
    THEN PyStr("ERROR: Common address has to be an integer between 0 and 65535.")
    ELSE PyBytes(<<common_address.v % 256, (common_address.v \div 256) % 256>>)

wrap_common_address(common_address) ==
    IF common_address.k # "int" \/ common_address.v < 0 \/ common_address.v > 65535
    THEN PyStr("ERROR: Common address has to be an integer between 0 and 65535.")
    ELSE PyBytes(<<common_address.v % 256, (common_address.v \div 256) % 256>>)

---------------------------------------------------------------------------
(* IEC104Wrapper: the field encoders of the information objects *)

\* wrap_quality_descriptor putting the blocked bit in bit 1
wrap_quality_descriptor_low_bits(overflow, blocked, substituted, not_topical, invalid) ==
    IF ~In01(overflow) THEN PyStr("ERROR: Overflow bit has to be 0 or 1.")
    ELSE IF ~In01(blocked) THEN PyStr("ERROR: Blocked bit has to be 0 or 1.")
    ELSE IF ~In01(substituted) THEN PyStr("ERROR: Substituted bit has to be 0 or 1.")
    ELSE IF ~In01(not_topical) THEN PyStr("ERROR: Not topical bit has to be 0 or 1.")
    ELSE IF ~In01(invalid) THEN PyStr("ERROR: Invalid bit has to be 0 or 1.")
    ELSE LET bl == IF Eq(blocked, 1) THEN 2 ELSE 0
             sb == IF Eq(substituted, 1) THEN 32 ELSE 0
             nt == IF Eq(not_topical, 1) THEN 64 ELSE 0
             iv == IF Eq(invalid, 1) THEN 128 ELSE 0
         IN \* a float overflow makes the sum a float, which '<B' does not pack
            IF overflow.k = "float" THEN PyRaise("struct.error")
            ELSE PyBytes(<<overflow.v + bl + sb + nt + iv>>)

wrap_quality_descriptor(overflow, blocked, substituted, not_topical, invalid) ==
    IF ~In01(overflow) THEN PyStr("ERROR: Overflow bit has to be 0 or 1.")
    ELSE IF ~In01(blocked) THEN PyStr("ERROR: Blocked bit has to be 0 or 1.")
    ELSE IF ~In01(substituted) THEN PyStr("ERROR: Substituted bit has to be 0 or 1.")
    ELSE IF ~In01(not_topical) THEN PyStr("ERROR: Not topical bit has to be 0 or 1.")
    ELSE IF ~In01(invalid) THEN PyStr("ERROR: Invalid bit has to be 0 or 1.")
    ELSE LET bl == IF Eq(blocked, 1) THEN 16 ELSE 0
             sb == IF Eq(substituted, 1) THEN 32 ELSE 0
             nt == IF Eq(not_topical, 1) THEN 64 ELSE 0
             iv == IF Eq(invalid, 1) THEN 128 ELSE 0
         IN \* a float overflow makes the sum a float, which '<B' does not pack
            IF overflow.k = "float" THEN PyRaise("struct.error")
            ELSE PyBytes(<<overflow.v + bl + sb + nt + iv>>)

wrap_qualifier_of_command(qualifier, select_execute) ==
    IF ~In01(select_execute) THEN PyStr("ERROR: S/E bit has to be 0 or 1.")
    ELSE IF qualifier.k # "int" \/ qualifier.v < 0 \/ qualifier.v > 31
    THEN PyStr("ERROR: Qualifier of command has to be an integer between 0 and 31.")
    ELSE PyInt(qualifier.v + (IF Eq(select_execute, 1) THEN 32 ELSE 0))

\* After its range check the qualifier handed on is in [0,31] and the S/E
\* bit in {0,1}, so wrap_qualifier_of_command returns an integer here.
wrap_single_command(single_command_state, qualifier_of_command) ==
    IF ~In01(single_command_state)
    THEN PyStr("ERROR: Single command state bit has to be 0 or 1.")
    ELSE IF qualifier_of_command.k # "int" \/ qualifier_of_command.v < 0 \/ qualifier_of_command.v > 63
    THEN PyStr("ERROR: Qualifier of command has to be an integer between 0 and 63.")
    ELSE LET qos == wrap_qualifier_of_command(PyInt((qualifier_of_command.v \div 2) % 256),
                                              PyInt(qualifier_of_command.v % 2))
         IN \* a float state makes the sum a float, which '<B' does not pack
            IF single_command_state.k = "float" THEN PyRaise("struct.error")
            ELSE PyBytes(<<single_command_state.v + ((qos.v * 4) % 256)>>)

wrap_qualifier_of_interrogation(qualifier) ==
    IF qualifier.k # "int" \/ qualifier.v < 0 \/ qualifier.v > 255
    THEN PyStr("ERROR: Qualifier of interrogation has to be an integer between 0 and 255.")
    ELSE PyBytes(<<qualifier.v>>)

\* wrap_information_object_m_bo_na_1 reporting an overflow from 4 bytes on
wrap_information_object_m_bo_na_1_from_four(message) ==
    IF message.k # "tuple"
    THEN PyStr("ERROR: M_BO_NA_1 expects a string and a tuple containing some bits of the IEC 104 quality descriptor in a tupel.")
    ELSE IF Item(message, 0).k = "raise" THEN Item(message, 0)
    ELSE IF ~(message.v[1].k = "bytes" \/ IsStr(message.v[1]))
    THEN PyStr("ERROR: M_BO_NA_1 expects a string or bytestring.")
    ELSE LET encoded == IF IsStr(message.v[1]) THEN encode(message.v[1].v) ELSE message.v[1]
             msg == encoded.v
             overflow == IF Len(msg) >= 4 THEN 1 ELSE 0
             q == [i \in 1..4 |-> Item(Item(message, 1), i - 1)]
             io == wrap_quality_descriptor(PyInt(overflow), q[1], q[2], q[3], q[4])
         IN IF encoded.k = "raise" THEN encoded
            ELSE IF Raised(q).k = "raise" THEN Raised(q)
            ELSE IF Stops(io) THEN io
            ELSE PyBytes(pack_4s(SubSeq(msg, 1, IF Len(msg) < 4 THEN Len(msg) ELSE 4)) \o io.v)

\* message is a (data, (blocked, substituted, not topical, invalid)) tuple
\* when it is a tuple.
wrap_information_object_m_bo_na_1(message) ==
    IF message.k # "tuple"
    THEN PyStr("ERROR: M_BO_NA_1 expects a string and a tuple containing some bits of the IEC 104 quality descriptor in a tupel.")
    ELSE IF Item(message, 0).k = "raise" THEN Item(message, 0)
    ELSE IF ~(message.v[1].k = "bytes" \/ IsStr(message.v[1]))
    THEN PyStr("ERROR: M_BO_NA_1 expects a string or bytestring.")
    ELSE LET encoded == IF IsStr(message.v[1]) THEN encode(message.v[1].v) ELSE message.v[1]
             msg == encoded.v
             overflow == IF Len(msg) > 4 THEN 1 ELSE 0
             q == [i \in 1..4 |-> Item(Item(message, 1), i - 1)]
             io == wrap_quality_descriptor(PyInt(overflow), q[1], q[2], q[3], q[4])
         IN IF encoded.k = "raise" THEN encoded
            ELSE IF Raised(q).k = "raise" THEN Raised(q)
            ELSE IF Stops(io) THEN io
            ELSE PyBytes(pack_4s(SubSeq(msg, 1, IF Len(msg) < 4 THEN Len(msg) ELSE 4)) \o io.v)

wrap_information_object_m_me_nc_1(message) ==
    IF message.k # "tuple"
    THEN PyStr("ERROR: M_ME_NC_1 expects a float value and a tuple containing some bits of the IEC 104 quality descriptor in a tupel.")
    ELSE IF Item(message, 0).k = "raise" THEN Item(message, 0)
    ELSE IF message.v[1].k # "float" THEN PyStr("ERROR: M_ME_NC_1 expects a float value.")
    ELSE LET q == [i \in 1..4 |-> Item(Item(message, 1), i - 1)]
             io == wrap_quality_descriptor(PyInt(0), q[1], q[2], q[3], q[4])
             number == pack_f(message.v[1])
         IN IF Raised(q).k = "raise" THEN Raised(q)
            ELSE IF Stops(io) THEN io
            ELSE IF number.k = "raise" THEN number
            ELSE PyBytes(number.v \o io.v)

wrap_information_object_c_sc_na_1(message) ==
    IF message.k # "tuple"
    THEN PyStr("ERROR: C_SC_NA_1 expects a single command state and a qualifier of command in a tupel.")
    ELSE IF Raised(<<Item(message, 0), Item(message, 1)>>).k = "raise"
    THEN Raised(<<Item(message, 0), Item(message, 1)>>)
    ELSE wrap_single_command(message.v[1], message.v[2])

wrap_information_object_c_ic_na_1(message) == wrap_qualifier_of_interrogation(message)

---------------------------------------------------------------------------
(* IEC104Wrapper: the operations that use the IOA counter.  `self` is the  *)
(* instance, [information_object_address, emitted]; each operation yields  *)
(* [ret |-> what it returns, self |-> the instance afterwards].            *)

\* set_information_object_address taking only the addresses that can be emitted
set_information_object_address_checked(self, new_address) ==
    IF new_address.k = "int" /\ new_address.v >= 0 /\ new_address.v <= 16777215
    THEN [self EXCEPT !.information_object_address = new_address.v]
    ELSE self

set_information_object_address(self, new_address) ==
    IF new_address.k = "int"
    THEN [self EXCEPT !.information_object_address = new_address.v]
    ELSE self

get_information_object_address(self) == self.information_object_address

\* wrap_information_object_address that advances the counter by two
wrap_information_object_address_by_two(self) ==
    LET a == self.information_object_address IN
    IF a < 0 \/ a > 16777215
    THEN [ret |-> PyStr("ERROR: Information object address has to be an integer between 0 and 16777215."),
          self |-> self]
    ELSE LET result == <<a % 256, (a \div 256) % 256, (a \div 65536) % 256>>
         IN [ret |-> PyBytes(result),
             self |-> set_information_object_address(
                          [self EXCEPT !.emitted = Append(@, result)], PyInt(a + 2))]

\* wrap_information_object_address that starts again at 0 after the last address
wrap_information_object_address_around(self) ==
    LET a == self.information_object_address IN
    IF a < 0 \/ a > 16777215
    THEN [ret |-> PyStr("ERROR: Information object address has to be an integer between 0 and 16777215."),
          self |-> self]
    ELSE LET result == <<a % 256, (a \div 256) % 256, (a \div 65536) % 256>>
         IN [ret |-> PyBytes(result),
             self |-> set_information_object_address(
                          [self EXCEPT !.emitted = Append(@, result)], PyInt((a + 1) % 16777216))]

\* The counter is an int in every state the model reaches (only the setter
\* writes it, and only with an int).
wrap_information_object_address(self) ==
    LET a == self.information_object_address IN
    IF a < 0 \/ a > 16777215
    THEN [ret |-> PyStr("ERROR: Information object address has to be an integer between 0 and 16777215."),
          self |-> self]
    ELSE LET result == <<a % 256, (a \div 256) % 256, (a \div 65536) % 256>>
         IN [ret |-> PyBytes(result),
             self |-> set_information_object_address(
                          [self EXCEPT !.emitted = Append(@, result)], PyInt(a + 1))]

\* the loops of wrap_information_object with the payload of each element put
\* before its address
RECURSIVE wrap_elements_payload_first(_, _, _, _, _, _, _)
wrap_elements_payload_first(self, type_id, own_address, message, i, length, result) ==
    IF ~(i < length) THEN [ret |-> PyBytes(result), self |-> self]
    ELSE IF length - i > 1
    THEN
        LET mid == i + (length - i) \div 2
            first == wrap_elements_payload_first(self, type_id, own_address, message, i, mid, result)
        IN  IF Stops(first.ret) THEN first
            ELSE wrap_elements_payload_first(first.self, type_id, own_address, message, mid, length,
                                             first.ret.v)
    ELSE
    LET adr == IF own_address THEN wrap_information_object_address(self)
               ELSE [ret |-> PyBytes(<<>>), self |-> self]
    IN  IF Stops(adr.ret) THEN adr
        ELSE
        LET temp == IF type_id = M_BO_NA_1
                    THEN wrap_information_object_m_bo_na_1(message[i + 1])
                    ELSE wrap_information_object_m_me_nc_1(message[i + 1])
        IN  IF Stops(temp) THEN [ret |-> temp, self |-> adr.self]
            ELSE [ret |-> PyBytes(result \o temp.v \o adr.ret.v), self |-> adr.self]

\* The four `while i < length` loops of wrap_information_object, from index
\* i on (0-based, as in the code) up to `length`, with `result` collected so far
\* (long runs are cut in two halves, the second run on what the first left): with
\* own_address each element is preceded by a fresh IOA (SQ == 0).
RECURSIVE wrap_elements(_, _, _, _, _, _, _)
wrap_elements(self, type_id, own_address, message, i, length, result) ==
    IF ~(i < length) THEN [ret |-> PyBytes(result), self |-> self]
    ELSE IF length - i > 1
    THEN \* the iterations i .. mid-1, then, unless one of them returned, the rest
        LET mid == i + (length - i) \div 2
            first == wrap_elements(self, type_id, own_address, message, i, mid, result)
        IN  IF Stops(first.ret) THEN first
            ELSE wrap_elements(first.self, type_id, own_address, message, mid, length, first.ret.v)
    ELSE \* one iteration of the loop
    LET adr == IF own_address THEN wrap_information_object_address(self)
               ELSE [ret |-> PyBytes(<<>>), self |-> self]
    IN  IF Stops(adr.ret) THEN adr
        ELSE
        LET temp == IF type_id = M_BO_NA_1
                    THEN wrap_information_object_m_bo_na_1(message[i + 1])
                    ELSE wrap_information_object_m_me_nc_1(message[i + 1])
        IN  IF Stops(temp) THEN [ret |-> temp, self |-> adr.self]
            ELSE [ret |-> PyBytes(result \o adr.ret.v \o temp.v), self |-> adr.self]

wrap_information_object(self, type_id, vsq, message) ==
    IF type_id.k # "int"
    THEN [ret |-> PyStr("ERROR: The type identification has to be an integer."), self |-> self]
    ELSE IF vsq.k # "int"
    THEN [ret |-> PyStr("ERROR: The variable structure qualifier has to be an integer."), self |-> self]
    ELSE IF message.k # "list" \/ Len(message.v) > 128
    THEN [ret |-> PyStr("ERROR: The message has to be a list containing less than 128 objects/elements."), self |-> self]
    ELSE
    LET length == vsq.v % 128 IN
    IF length = 0 THEN [ret |-> PyBytes(<<>>), self |-> self]
    ELSE IF length > Len(message.v)
    THEN [ret |-> PyStr("ERROR: Variable structure qualifier expects more messages than given."), self |-> self]
    ELSE IF length < Len(message.v)
    THEN [ret |-> PyStr("ERROR: Variable structure qualifier expects fewer messages than given."), self |-> self]
    ELSE IF (vsq.v \div 128) % 2 = 1
    THEN \* SQ == 1
        LET temp == wrap_information_object_address(self) IN
        IF Stops(temp.ret) THEN temp
        ELSE IF type_id.v \in {M_BO_NA_1, M_ME_NC_1}
        THEN wrap_elements(temp.self, type_id.v, FALSE, message.v, 0, length, temp.ret.v)
        ELSE [ret |-> PyStr("ERROR: The ASDU type was not recognized or is not fit to be a sequence of elements."),
              self |-> temp.self]
    ELSE \* SQ == 0
        IF type_id.v \in {M_BO_NA_1, M_ME_NC_1}
        THEN wrap_elements(self, type_id.v, TRUE, message.v, 0, length, <<>>)
        ELSE IF type_id.v \in {C_SC_NA_1, C_IC_NA_1, C_RD_NA_1}
        THEN IF length # 1
             THEN [ret |-> PyStr(IF type_id.v = C_SC_NA_1 THEN "ERROR: C_SC_NA_1 length has to be 1."
                                 ELSE IF type_id.v = C_IC_NA_1 THEN "ERROR: C_IC_NA_1 length has to be 1."
                                 ELSE "ERROR: C_RD_NA_1 length has to be 1."),
                   self |-> self]
             ELSE LET adr == wrap_information_object_address(self) IN
                  IF Stops(adr.ret) THEN adr
                  ELSE IF type_id.v = C_RD_NA_1 THEN adr
                  ELSE LET temp == IF type_id.v = C_SC_NA_1
                                   THEN wrap_information_object_c_sc_na_1(message.v[1])
                                   ELSE wrap_information_object_c_ic_na_1(message.v[1])
                       IN IF Stops(temp) THEN [ret |-> temp, self |-> adr.self]
                          ELSE [ret |-> PyBytes(adr.ret.v \o temp.v), self |-> adr.self]
        ELSE [ret |-> PyStr("ERROR: The ASDU type was not recognized or is not fit to be a sequence of elements."),
              self |-> self]

\* wrap_asdu that encodes the first element of whatever list it is given
wrap_asdu_first_element(self, asdu_type, sequence, cause_of_transmission, common_address, message, originator_address) ==
    IF ~In01(sequence) THEN [ret |-> PyStr("ERROR: Sequence bit has to be 0 or 1."), self |-> self]
    ELSE
    LET type_id == wrap_asdu_type(asdu_type) IN
    IF Stops(type_id) THEN [ret |-> type_id, self |-> self]
    ELSE
    LET vsq == wrap_variable_structure_qualifier(type_id, sequence, message) IN
    IF Stops(vsq) THEN [ret |-> vsq, self |-> self]
    ELSE
    LET cot == wrap_cause_of_transmission(cause_of_transmission, originator_address) IN
    IF Stops(cot) THEN [ret |-> cot, self |-> self]
    ELSE
    LET ca == wrap_common_address(common_address) IN
    IF Stops(ca) THEN [ret |-> ca, self |-> self]
    ELSE
    LET io == wrap_information_object(self, type_id, PyInt(1),
                                      IF Len(message.v) = 0 THEN message ELSE PyList(<<message.v[1]>>)) IN
    IF Stops(io.ret) THEN io
    ELSE [ret |-> PyBytes(<<type_id.v, vsq.v % 256>> \o cot.v \o ca.v \o io.ret.v), self |-> io.self]

\* The end of wrap_asdu, io being what wrap_information_object returned and
\* left of the encoder. The last line packs type_id and vsq with '<2B':
\* struct.error when vsq is not in 0..255 (type_id is one of the five
\* constants there).
asdu_of(type_id, vsq, cot, ca, io) ==
    IF Stops(io.ret) THEN io
    ELSE IF vsq.v > 255 THEN [ret |-> PyRaise("struct.error"), self |-> io.self]
    ELSE [ret |-> PyBytes(<<type_id.v, vsq.v>> \o cot.v \o ca.v \o io.ret.v), self |-> io.self]

wrap_asdu(self, asdu_type, sequence, cause_of_transmission, common_address, message, originator_address) ==
    IF ~In01(sequence) THEN [ret |-> PyStr("ERROR: Sequence bit has to be 0 or 1."), self |-> self]
    ELSE
    LET type_id == wrap_asdu_type(asdu_type) IN
    IF Stops(type_id) THEN [ret |-> type_id, self |-> self]
    ELSE
    LET vsq == wrap_variable_structure_qualifier(type_id, sequence, message) IN
    IF Stops(vsq) THEN [ret |-> vsq, self |-> self]
    ELSE
    LET cot == wrap_cause_of_transmission(cause_of_transmission, originator_address) IN
    IF Stops(cot) THEN [ret |-> cot, self |-> self]
    ELSE
    LET ca == wrap_common_address(common_address) IN
    IF Stops(ca) THEN [ret |-> ca, self |-> self]
    ELSE
    asdu_of(type_id, vsq, cot, ca, wrap_information_object(self, type_id, vsq, message))

\* create_apdu that refuses what is longer than 253 bytes
create_apdu_limited(self, frame, asdu_type, sequence, cause_of_transmission, common_address, message, ssn, rsn, originator_address) ==
    LET apci == wrap_frame(frame, ssn, rsn) IN
    IF apci.k = "raise" \/ IsStr(apci) THEN [ret |-> apci, self |-> self]
    ELSE
    LET asdu == wrap_asdu(self, asdu_type, sequence, cause_of_transmission, common_address,
                          message, originator_address) IN
    IF asdu.ret.k = "raise" \/ IsStr(asdu.ret) THEN asdu
    ELSE IF Len(apci.v \o asdu.ret.v) > 253 THEN [ret |-> PyStr("ERROR: APDU too long."), self |-> asdu.self]
    ELSE [ret |-> PyBytes(apci.v \o asdu.ret.v), self |-> asdu.self]

\* the end of create_apdu, asdu being what wrap_asdu returned and left of the
\* encoder
apdu_of(apci, asdu) ==
    IF Stops(asdu.ret) THEN asdu
    ELSE [ret |-> PyBytes(apci.v \o asdu.ret.v), self |-> asdu.self]

create_apdu(self, frame, asdu_type, sequence, cause_of_transmission, common_address, message, ssn, rsn, originator_address) ==
    LET apci == wrap_frame(frame, ssn, rsn) IN
    IF Stops(apci) THEN [ret |-> apci, self |-> self]
    ELSE apdu_of(apci, wrap_asdu(self, asdu_type, sequence, cause_of_transmission, common_address,
                                 message, originator_address))

---------------------------------------------------------------------------
(* struct.unpack_from and bytes.decode *)

\* unpack_from reads `size` bytes at `offset` (0-based) and fails with
\* struct.error when the buffer ends before offset + size.  A negative
\* offset counts from the end of the buffer: it fails when fewer than `size`
\* bytes lie behind it or when it lies before the start.
can_unpack(buffer, offset, size) ==
    IF offset < 0
    THEN offset + size <= 0 /\ offset + Len(buffer) >= 0
    ELSE offset + size <= Len(buffer)

\* the 0-based position in buffer that unpack_from reads from
position(buffer, offset) == IF offset < 0 THEN offset + Len(buffer) ELSE offset

byte_at(buffer, offset) == buffer[position(buffer, offset) + 1]

\* the `size` bytes that one unpack_from reads at `offset`
bytes_at(buffer, offset, size) ==
    SubSeq(buffer, position(buffer, offset) + 1, position(buffer, offset) + size)

\* '<4B', '<3B': the tuple of the integers that `size` bytes at `offset` hold
unpack_B(buffer, offset, size) ==
    PyTuple([j \in 1..size |-> PyInt(bytes_at(buffer, offset, size)[j])])

\* bytes.decode(): strict UTF-8.  [ok, cps]: ok is FALSE for
\* UnicodeDecodeError, cps are the code points decoded.
cont(b) == b \in 128..191

RECURSIVE decode(_)
decode(b) ==
    IF b = <<>> THEN [ok |-> TRUE, cps |-> <<>>]
    ELSE
    LET b0 == b[1]
        n == IF b0 < 128 THEN 1
             ELSE IF b0 \in 194..223 THEN 2
             ELSE IF b0 \in 224..239 THEN 3
             ELSE IF b0 \in 240..244 THEN 4
             ELSE 0
        good == /\ n > 0
                /\ Len(b) >= n
                /\ \A j \in 2..n : cont(b[j])
                /\ (b0 = 224 => b[2] >= 160)
                /\ (b0 = 237 => b[2] <= 159)
                /\ (b0 = 240 => b[2] >= 144)
                /\ (b0 = 244 => b[2] <= 143)
        cp == IF n = 1 THEN b0
              ELSE IF n = 2 THEN (b0 - 192) * 64 + (b[2] - 128)
              ELSE IF n = 3 THEN (b0 - 224) * 4096 + (b[2] - 128) * 64 + (b[3] - 128)
              ELSE (b0 - 240) * 262144 + (b[2] - 128) * 4096 + (b[3] - 128) * 64 + (b[4] - 128)
    IN  IF ~good THEN [ok |-> FALSE, cps |-> <<>>]
        ELSE LET rest == decode(SubSeq(b, n + 1, Len(b)))
             IN IF rest.ok THEN [ok |-> TRUE, cps |-> <<cp>> \o rest.cps] ELSE rest

\* the binary32 of the 4 bytes b as the conversion to a Python float leaves
\* it: a signalling NaN (exponent 255, mantissa not 0, bit 22 clear) becomes
\* the quiet NaN with bit 22 set, every other value is kept
quieted(b) ==
    IF /\ b[4] % 128 = 127 /\ b[3] >= 128
       /\ (b[3] % 128 # 0 \/ b[2] # 0 \/ b[1] # 0)
       /\ (b[3] \div 64) % 2 = 0
    THEN <<b[1], b[2], b[3] + 64, b[4]>>
    ELSE b

\* '<f': the Python float that equals the binary32 value of the 4 bytes
unpack_f(buffer, offset) == PyFloat(TRUE, quieted(bytes_at(buffer, offset, 4)))

---------------------------------------------------------------------------
(* IEC104Unwrapper (python3/unwrapper.py) *)

unwrap_header(header) ==
    IF header.k # "bytes" THEN PyStr("ERROR: The APDU header has to be a bytestring.")
    ELSE IF Len(header.v) # 2 THEN PyStr("ERROR: The APDU header has to be exactly 2 bytes long.")
    ELSE IF header.v[1] # 104 THEN PyStr("ERROR: The APDU has to start with a 68H.")
    ELSE PyInt(header.v[2])

\* unwrap_frame taking every first byte with (b0 & 3) == 1 for an S-frame
unwrap_frame_masked(frame) ==
    IF frame.k # "tuple" \/ Len(frame.v) # 4
    THEN PyStr("ERROR: The frame has to be a tuple containing 4 integers.")
    ELSE IF frame.v[1].k # "int" THEN PyRaise("TypeError")
    ELSE
    LET f == [j \in 1..4 |-> frame.v[j].v] IN
    IF f[1] % 2 = 0
    THEN IF \E j \in 2..4 : frame.v[j].k # "int" THEN PyRaise("TypeError")
         ELSE PyTuple(<<PyStr("i-frame"), PyInt(f[2] * 128 + (f[1] \div 2)), PyInt(f[4] * 128 + (f[3] \div 2))>>)
    ELSE IF f[1] % 4 = 1
    THEN IF \E j \in 3..4 : frame.v[j].k # "int" THEN PyRaise("TypeError")
         ELSE PyTuple(<<PyStr("s-frame"), PyInt(1), PyInt(f[4] * 128 + (f[3] \div 2))>>)
    ELSE IF f[1] \in {TESTFR_CON, TESTFR_ACT, STOPDT_CON, STOPDT_ACT, STARTDT_CON, STARTDT_ACT, NO_FUNC}
    THEN PyTuple(<<PyStr("u-frame"),
                   PyStr(CASE f[1] = TESTFR_CON -> "TESTFR_CON" [] f[1] = TESTFR_ACT -> "TESTFR_ACT"
                           [] f[1] = STOPDT_CON -> "STOPDT_CON" [] f[1] = STOPDT_ACT -> "STOPDT_ACT"
                           [] f[1] = STARTDT_CON -> "STARTDT_CON" [] f[1] = STARTDT_ACT -> "STARTDT_ACT"
                           [] OTHER -> "NO_FUNC"),
                   PyInt(0)>>)
    ELSE PyStr("ERROR: Function type could not be determined.")

\* The members of frame are not tested to be integers: `&`, `<<` and `>>` on
\* a member that is none raise TypeError, when the member is reached.
unwrap_frame(frame) ==
    IF frame.k # "tuple" \/ Len(frame.v) # 4
    THEN PyStr("ERROR: The frame has to be a tuple containing 4 integers.")
    ELSE IF frame.v[1].k # "int" THEN PyRaise("TypeError")
    ELSE
    LET f == [j \in 1..4 |-> frame.v[j].v] IN
    IF f[1] % 2 = 0
    THEN IF \E j \in 2..4 : frame.v[j].k # "int" THEN PyRaise("TypeError")
         ELSE PyTuple(<<PyStr("i-frame"), PyInt(f[2] * 128 + (f[1] \div 2)), PyInt(f[4] * 128 + (f[3] \div 2))>>)
    ELSE IF f[1] = 1
    THEN IF \E j \in 3..4 : frame.v[j].k # "int" THEN PyRaise("TypeError")
         ELSE PyTuple(<<PyStr("s-frame"), PyInt(1), PyInt(f[4] * 128 + (f[3] \div 2))>>)
    ELSE IF f[1] % 4 = 3
    THEN IF f[1] = TESTFR_CON THEN PyTuple(<<PyStr("u-frame"), PyStr("TESTFR_CON"), PyInt(0)>>)
         ELSE IF f[1] = TESTFR_ACT THEN PyTuple(<<PyStr("u-frame"), PyStr("TESTFR_ACT"), PyInt(0)>>)
         ELSE IF f[1] = STOPDT_CON THEN PyTuple(<<PyStr("u-frame"), PyStr("STOPDT_CON"), PyInt(0)>>)
         ELSE IF f[1] = STOPDT_ACT THEN PyTuple(<<PyStr("u-frame"), PyStr("STOPDT_ACT"), PyInt(0)>>)
         ELSE IF f[1] = STARTDT_CON THEN PyTuple(<<PyStr("u-frame"), PyStr("STARTDT_CON"), PyInt(0)>>)
         ELSE IF f[1] = STARTDT_ACT THEN PyTuple(<<PyStr("u-frame"), PyStr("STARTDT_ACT"), PyInt(0)>>)
         ELSE IF f[1] = NO_FUNC THEN PyTuple(<<PyStr("u-frame"), PyStr("NO_FUNC"), PyInt(0)>>)
         ELSE PyStr("ERROR: Function type could not be determined.")
    ELSE PyStr("ERROR: Frame type could not be determined.")

unwrap_type_identification(type_id) ==
    IF type_id.k # "int" THEN PyStr("ERROR: The type identification has to be an integer.")
    ELSE IF type_id.v = M_BO_NA_1 THEN PyStr("M_BO_NA_1")
    ELSE IF type_id.v = M_ME_NC_1 THEN PyStr("M_ME_NC_1")
    ELSE IF type_id.v = C_SC_NA_1 THEN PyStr("C_SC_NA_1")
    ELSE IF type_id.v = C_IC_NA_1 THEN PyStr("C_IC_NA_1")
    ELSE IF type_id.v = C_RD_NA_1 THEN PyStr("C_RD_NA_1")
    ELSE PyStr("ERROR: The ASDU type was not recognized.")

unwrap_variable_structure_qualifier(vsq) ==
    IF vsq.k # "int" THEN PyStr("ERROR: The variable structure qualifier has to be an integer.")
    ELSE PyTuple(<<PyInt((vsq.v \div 128) % 2), PyInt(vsq.v % 128)>>)

\* unwrap_cause_of_transmission reading the cause from seven bits (cot & 0x7F)
unwrap_cause_of_transmission_seven_bits(cot) ==
    IF cot.k # "int"
    THEN PyStr("ERROR: The cause of transmission, P/N bit and Testit have to be wrapped into an integer.")
    ELSE
    LET cause_id == cot.v % 128
        cause == CASE cause_id = PERIODIC -> "periodic"
                   [] cause_id = SPONTANEOUS -> "spontaneous"
                   [] cause_id = REQUEST_REQUESTED -> "request or requested"
                   [] cause_id = ACTIVATION -> "activation"
                   [] cause_id = ACTIVATION_CONFIRMATION -> "activation confirmation"
                   [] cause_id = RETURN_INFORMATION_BY_REMOTE_COMMAND -> "return information by remote command"
                   [] OTHER -> ""
    IN IF cause = "" THEN PyStr("ERROR: No cause of transmission was found.")
       ELSE PyTuple(<<PyStr(cause), PyInt((cot.v \div 64) % 2), PyInt((cot.v \div 128) % 2)>>)

\* cot is a byte (0..255) wherever the model calls this.
unwrap_cause_of_transmission(cot) ==
    IF cot.k # "int"
    THEN PyStr("ERROR: The cause of transmission, P/N bit and Testit have to be wrapped into an integer.")
    ELSE
    LET cause_id == cot.v % 64
        cause == IF cause_id = PERIODIC THEN "periodic"
                 ELSE IF cause_id = SPONTANEOUS THEN "spontaneous"
                 ELSE IF cause_id = REQUEST_REQUESTED THEN "request or requested"
                 ELSE IF cause_id = ACTIVATION THEN "activation"
                 ELSE IF cause_id = ACTIVATION_CONFIRMATION THEN "activation confirmation"
                 ELSE IF cause_id = RETURN_INFORMATION_BY_REMOTE_COMMAND
                      THEN "return information by remote command"
                 ELSE ""
    IN IF cause = "" THEN PyStr("ERROR: No cause of transmission was found.")
       ELSE PyTuple(<<PyStr(cause), PyInt((cot.v \div 64) % 2), PyInt((cot.v \div 128) % 2)>>)

unwrap_information_object_address(ioa) ==
    IF ioa.k # "tuple" \/ Len(ioa.v) # 3 \/ \E j \in 1..3 : ioa.v[j].k # "int"
    THEN PyStr("ERROR: Information object address has to be a tuple containing 3 integers.")
    ELSE PyInt(ioa.v[1].v + ioa.v[2].v * 256 + ioa.v[3].v * 65536)

unwrap_quality_descriptor(qds) ==
    IF qds.k # "int" THEN PyStr("ERROR: The quality descriptor has to be an integer.")
    ELSE PyTuple(<<PyInt(qds.v % 2), PyInt((qds.v \div 16) % 2), PyInt((qds.v \div 32) % 2),
                   PyInt((qds.v \div 64) % 2), PyInt((qds.v \div 128) % 2)>>)

unwrap_qualifier_of_command(qoc) ==
    IF qoc.k # "int" THEN PyStr("ERROR: Qualifier of command has to be an integer.")
    ELSE PyTuple(<<PyInt(qoc.v % 32), PyInt((qoc.v \div 32) % 2)>>)

\* unwrap_single_command taking the qualifier of command from bit 1 on
unwrap_single_command_from_bit_one(sco) ==
    IF sco.k # "int" THEN PyStr("ERROR: A single command has to be an integer.")
    ELSE LET qoc == unwrap_qualifier_of_command(PyInt((sco.v % 256) \div 2))
         IN PyTuple(<<PyInt(sco.v % 2), qoc>>)

\* sco & 0xFC clears bits 0 and 1; sco is a byte wherever the model calls this.
unwrap_single_command(sco) ==
    IF sco.k # "int" THEN PyStr("ERROR: A single command has to be an integer.")
    ELSE LET qoc == unwrap_qualifier_of_command(PyInt(((sco.v \div 4) * 4 % 256) \div 4))
         IN PyTuple(<<PyInt(sco.v % 2), qoc>>)

unwrap_qualifier_of_interrogation(qualifier) ==
    IF qualifier.k # "int" \/ qualifier.v < 0 \/ qualifier.v > 255
    THEN PyStr("ERROR: Qualifier of interrogation has to be an integer between 0 and 255.")
    ELSE qualifier


\* struct.unpack_from('<3B', asdu, offset) handed to
\* unwrap_information_object_address
read_ioa(asdu, offset) ==
    IF ~can_unpack(asdu, offset, 3) THEN PyRaise("struct.error")
    ELSE unwrap_information_object_address(unpack_B(asdu, offset, 3))

\* The four `while i < asdu_length` loops of unwrap_information_objects, from
\* element i on with `result` collected so far.  With own_address (SQ == 0)
\* each element starts with its IOA and is 8 bytes long, else 5.  The reads
\* happen in the order of the code, so that the first failing one decides.
\* A bitstring is read with four unpack_from('<s') of one byte each.
RECURSIVE unwrap_elements(_, _, _, _, _, _, _)
unwrap_elements(type_id, own_address, asdu, offset, i, asdu_length, result) ==
    IF ~(i < asdu_length) THEN PyList(result)
    ELSE IF asdu_length - i > 1
    THEN \* the iterations i .. mid-1, then, unless one of them returned, the rest
        LET mid == i + (asdu_length - i) \div 2
            first == unwrap_elements(type_id, own_address, asdu, offset, i, mid, result)
        IN  IF first.k # "list" THEN first
            ELSE unwrap_elements(type_id, own_address, asdu,
                                 offset + (mid - i) * (IF own_address THEN 8 ELSE 5),
                                 mid, asdu_length, first.v)
    ELSE \* one iteration of the loop
    LET ioa == IF own_address THEN read_ioa(asdu, offset) ELSE PyNone
        at == IF own_address THEN offset + 3 ELSE offset
    IN
    IF ioa.k = "raise" \/ IsStr(ioa) THEN ioa
    ELSE IF ~(IF type_id = M_BO_NA_1 THEN \A j \in 0..3 : can_unpack(asdu, at + j, 1)
              ELSE can_unpack(asdu, at, 4))
    THEN PyRaise("struct.error")
    ELSE
    LET bsi == decode([j \in 1..4 |-> byte_at(asdu, at + j - 1)])
        value == IF type_id = M_BO_NA_1 THEN PyChars(bsi.cps) ELSE unpack_f(asdu, at)
    IN
    IF type_id = M_BO_NA_1 /\ ~bsi.ok THEN PyRaise("UnicodeDecodeError")
    ELSE IF ~can_unpack(asdu, at + 4, 1) THEN PyRaise("struct.error")
    ELSE
    LET qds == unwrap_quality_descriptor(PyInt(byte_at(asdu, at + 4)))
        element == IF own_address THEN PyTuple(<<ioa, value, qds>>) ELSE PyTuple(<<value, qds>>)
    IN  IF IsStr(qds) THEN qds
        ELSE PyList(Append(result, element))

\* unwrap_information_objects without the test that a command has one object
unwrap_information_objects_any_count(type_id, sequence, asdu_length, asdu, length, offset) ==
    IF type_id.k # "int" THEN PyStr("ERROR: The type identification has to be an integer.")
    ELSE IF ~In01(sequence) THEN PyStr("ERROR: Sequence bit has to be 0 or 1.")
    ELSE IF asdu_length.k # "int" \/ asdu_length.v < 1
    THEN PyStr("ERROR: The ASDU length has to be an integer bigger than 0.")
    ELSE IF asdu.k # "bytes" THEN PyStr("ERROR: The ASDU has to be a bytestring.")
    ELSE IF length.k # "int" THEN PyStr("ERROR: The ASDU byte length has to be an integer.")
    ELSE IF Eq(sequence, 1)
    THEN IF type_id.v \in {M_BO_NA_1, M_ME_NC_1}
         THEN IF asdu_length.v * (IF type_id.v = M_BO_NA_1 THEN M_BO_NA_1_LENGTH ELSE M_ME_NC_1_LENGTH)
                    + INFORMATION_OBJECT_ADDRESS_LENGTH # length.v
              THEN PyStr("ERROR: The expected ASDU length does not equal the real length.")
              ELSE IF offset.k # "int" THEN PyRaise("TypeError")
              ELSE LET ioa == read_ioa(asdu.v, offset.v) IN
                   IF ioa.k = "raise" \/ IsStr(ioa) THEN ioa
                   ELSE unwrap_elements(type_id.v, FALSE, asdu.v, offset.v + 3, 0, asdu_length.v, <<ioa>>)
         ELSE PyStr("ERROR: The ASDU type was not recognized or does not work as a sequence.")
    ELSE IF type_id.v \in {M_BO_NA_1, M_ME_NC_1}
         THEN IF asdu_length.v * ((IF type_id.v = M_BO_NA_1 THEN M_BO_NA_1_LENGTH ELSE M_ME_NC_1_LENGTH)
                    + INFORMATION_OBJECT_ADDRESS_LENGTH) # length.v
              THEN PyStr("ERROR: The expected ASDU length does not equal the real length.")
              ELSE IF offset.k # "int" THEN PyRaise("TypeError")
              ELSE unwrap_elements(type_id.v, TRUE, asdu.v, offset.v, 0, asdu_length.v, <<>>)
    ELSE IF type_id.v = C_SC_NA_1
         THEN IF asdu_length.v + INFORMATION_OBJECT_ADDRESS_LENGTH # length.v
              THEN PyStr("ERROR: The expected ASDU length does not equal the real length.")
              ELSE IF offset.k # "int" THEN PyRaise("TypeError")
              ELSE LET ioa == read_ioa(asdu.v, offset.v) IN
                   IF ioa.k = "raise" \/ IsStr(ioa) THEN ioa
                   ELSE IF ~can_unpack(asdu.v, offset.v + 3, 1) THEN PyRaise("struct.error")
                   ELSE LET sco == unwrap_single_command(PyInt(byte_at(asdu.v, offset.v + 3)))
                        IN IF IsStr(sco) THEN sco ELSE PyList(<<PyTuple(<<ioa, sco>>)>>)
    ELSE IF type_id.v = C_IC_NA_1
         THEN IF asdu_length.v + INFORMATION_OBJECT_ADDRESS_LENGTH # length.v
              THEN PyStr("ERROR: The expected ASDU length does not equal the real length.")
              ELSE LET ioa == read_ioa(asdu.v, 0) IN
                   IF ioa.k = "raise" \/ IsStr(ioa) THEN ioa
                   ELSE IF offset.k # "int" THEN PyRaise("TypeError")
                   ELSE IF ~can_unpack(asdu.v, offset.v + 3, 1) THEN PyRaise("struct.error")
                   ELSE LET qoi == unwrap_qualifier_of_interrogation(PyInt(byte_at(asdu.v, offset.v + 3)))
                        IN IF IsStr(qoi) THEN qoi ELSE PyList(<<PyTuple(<<ioa, qoi>>)>>)
    ELSE IF type_id.v = C_RD_NA_1
         THEN IF INFORMATION_OBJECT_ADDRESS_LENGTH # length.v
              THEN PyStr("ERROR: The expected ASDU length does not equal the real length.")
              ELSE LET ioa == read_ioa(asdu.v, 0) IN
                   IF ioa.k = "raise" \/ IsStr(ioa) THEN ioa ELSE PyList(<<ioa>>)
    ELSE PyStr("ERROR: The ASDU type was not recognized or does only work as a sequence.")

\* offset is not tested: the first read that uses it raises TypeError when it
\* is no integer.  For C_IC_NA_1 and C_RD_NA_1 the IOA is unpacked without an
\* offset, that is at byte 0 of asdu.
unwrap_information_objects(type_id, sequence, asdu_length, asdu, length, offset) ==
    IF type_id.k # "int" THEN PyStr("ERROR: The type identification has to be an integer.")
    ELSE IF ~In01(sequence) THEN PyStr("ERROR: Sequence bit has to be 0 or 1.")
    ELSE IF asdu_length.k # "int" \/ asdu_length.v < 1
    THEN PyStr("ERROR: The ASDU length has to be an integer bigger than 0.")
    ELSE IF asdu.k # "bytes" THEN PyStr("ERROR: The ASDU has to be a bytestring.")
    ELSE IF length.k # "int" THEN PyStr("ERROR: The ASDU byte length has to be an integer.")
    ELSE IF Eq(sequence, 1)
    THEN IF type_id.v \in {M_BO_NA_1, M_ME_NC_1}
         THEN IF asdu_length.v * (IF type_id.v = M_BO_NA_1 THEN M_BO_NA_1_LENGTH ELSE M_ME_NC_1_LENGTH)
                    + INFORMATION_OBJECT_ADDRESS_LENGTH # length.v
              THEN PyStr("ERROR: The expected ASDU length does not equal the real length.")
              ELSE IF offset.k # "int" THEN PyRaise("TypeError")
              ELSE LET ioa == read_ioa(asdu.v, offset.v) IN
                   IF ioa.k = "raise" \/ IsStr(ioa) THEN ioa
                   ELSE unwrap_elements(type_id.v, FALSE, asdu.v, offset.v + 3, 0, asdu_length.v, <<ioa>>)
         ELSE PyStr("ERROR: The ASDU type was not recognized or does not work as a sequence.")
    ELSE IF type_id.v \in {M_BO_NA_1, M_ME_NC_1}
         THEN IF asdu_length.v * ((IF type_id.v = M_BO_NA_1 THEN M_BO_NA_1_LENGTH ELSE M_ME_NC_1_LENGTH)
                    + INFORMATION_OBJECT_ADDRESS_LENGTH) # length.v
              THEN PyStr("ERROR: The expected ASDU length does not equal the real length.")
              ELSE IF offset.k # "int" THEN PyRaise("TypeError")
              ELSE unwrap_elements(type_id.v, TRUE, asdu.v, offset.v, 0, asdu_length.v, <<>>)
    ELSE IF type_id.v = C_SC_NA_1
         THEN IF asdu_length.v # 1 THEN PyStr("ERROR: C_SC_NA_1 expects only one information object.")
              ELSE IF asdu_length.v + INFORMATION_OBJECT_ADDRESS_LENGTH # length.v
              THEN PyStr("ERROR: The expected ASDU length does not equal the real length.")
              ELSE IF offset.k # "int" THEN PyRaise("TypeError")
              ELSE LET ioa == read_ioa(asdu.v, offset.v) IN
                   IF ioa.k = "raise" \/ IsStr(ioa) THEN ioa
                   ELSE IF ~can_unpack(asdu.v, offset.v + 3, 1) THEN PyRaise("struct.error")
                   ELSE LET sco == unwrap_single_command(PyInt(byte_at(asdu.v, offset.v + 3)))
                        IN IF IsStr(sco) THEN sco ELSE PyList(<<PyTuple(<<ioa, sco>>)>>)
    ELSE IF type_id.v = C_IC_NA_1
         THEN IF asdu_length.v # 1 THEN PyStr("ERROR: C_IC_NA_1 expects only one information object.")
              ELSE IF asdu_length.v + INFORMATION_OBJECT_ADDRESS_LENGTH # length.v
              THEN PyStr("ERROR: The expected ASDU length does not equal the real length.")
              ELSE LET ioa == read_ioa(asdu.v, 0) IN
                   IF ioa.k = "raise" \/ IsStr(ioa) THEN ioa
                   ELSE IF offset.k # "int" THEN PyRaise("TypeError")
                   ELSE IF ~can_unpack(asdu.v, offset.v + 3, 1) THEN PyRaise("struct.error")
                   ELSE LET qoi == unwrap_qualifier_of_interrogation(PyInt(byte_at(asdu.v, offset.v + 3)))
                        IN IF IsStr(qoi) THEN qoi ELSE PyList(<<PyTuple(<<ioa, qoi>>)>>)
    ELSE IF type_id.v = C_RD_NA_1
         THEN IF asdu_length.v # 1 THEN PyStr("ERROR: C_RD_NA_1 expects only one information object.")
              ELSE IF INFORMATION_OBJECT_ADDRESS_LENGTH # length.v
              THEN PyStr("ERROR: The expected ASDU length does not equal the real length.")
              ELSE LET ioa == read_ioa(asdu.v, 0) IN
                   IF ioa.k = "raise" \/ IsStr(ioa) THEN ioa ELSE PyList(<<ioa>>)
    ELSE PyStr("ERROR: The ASDU type was not recognized or does only work as a sequence.")

\* The common address is the first of the two bytes that '<2B' unpacks at
\* offset 8.  The test of "no information expected" looks at len(apdu), not
\* at the declared length.
unwrap_apdu(apdu, length) ==
    IF apdu.k # "bytes" THEN PyStr("ERROR: The APDU has to be a bytestring.")
    ELSE IF length.k # "int" \/ length.v < APDU_MIN_LEN
    THEN PyStr("ERROR: The length has to be an integer bigger than 9(excluding header).")
    ELSE IF ~can_unpack(apdu.v, 0, 4) THEN PyRaise("struct.error")
    ELSE
    LET frame == unwrap_frame(unpack_B(apdu.v, 0, 4)) IN
    IF IsStr(frame) THEN frame
    ELSE IF ~can_unpack(apdu.v, 4, 1) THEN PyRaise("struct.error")
    ELSE
    LET type_id == PyInt(byte_at(apdu.v, 4))
        asdu_type == unwrap_type_identification(type_id)
    IN
    IF asdu_type.v \in {"ERROR: The type identification has to be an integer.",
                        "ERROR: The ASDU type was not recognized."}
    THEN asdu_type
    ELSE IF ~can_unpack(apdu.v, 5, 1) THEN PyRaise("struct.error")
    ELSE
    LET vsq == unwrap_variable_structure_qualifier(PyInt(byte_at(apdu.v, 5))) IN
    IF IsStr(vsq) THEN vsq
    ELSE IF ~can_unpack(apdu.v, 6, 1) THEN PyRaise("struct.error")
    ELSE
    LET cot == unwrap_cause_of_transmission(PyInt(byte_at(apdu.v, 6))) IN
    IF IsStr(cot) THEN cot
    ELSE IF ~can_unpack(apdu.v, 7, 1) THEN PyRaise("struct.error")
    ELSE IF ~can_unpack(apdu.v, 8, 2) THEN PyRaise("struct.error")
    ELSE
    LET oa == PyInt(byte_at(apdu.v, 7))
        ca == PyInt(byte_at(apdu.v, 8))
    IN
    IF vsq.v[2].v = 0
    THEN IF Len(apdu.v) - APDU_MIN_LEN # 0
         THEN PyStr("ERROR: No information object was expected but the APDU still contains information.")
         ELSE PyTuple(<<frame, asdu_type, vsq, cot, oa, ca, PyStr("No information objects/elements.")>>)
    ELSE
    LET io == unwrap_information_objects(type_id, vsq.v[1], vsq.v[2], apdu, PyInt(length.v - APDU_MIN_LEN), PyInt(10)) IN
    IF io.k = "raise" \/ IsStr(io) THEN io
    ELSE PyTuple(<<frame, asdu_type, vsq, cot, oa, ca, io>>)


---------------------------------------------------------------------------
(* The values the callers of the model pass *)

s_Test == <<84, 101, 115, 116>>
s_Tested == <<84, 101, 115, 116, 101, 100>>
s_ab == <<97, 98>>
s_Read == <<82, 101, 97, 100>>
s_testcon == <<116, 101, 115, 116, 99, 111, 110>>
s_return_information_due_to_remote_command == <<114, 101, 116, 117, 114, 110, 32, 105, 110, 102, 111, 114, 109, 97, 116, 105, 111, 110, 32, 100, 117, 101, 32, 116, 111, 32, 114, 101, 109, 111, 116, 101, 32, 99, 111, 109, 109, 97, 110, 100>>

\* The names unwrap_frame returns for a U-frame, as a caller would pass
\* them to u_frame
Chars(name) ==
    CASE name = "TESTFR_CON" -> <<84, 69, 83, 84, 70, 82, 95, 67, 79, 78>>
      [] name = "TESTFR_ACT" -> <<84, 69, 83, 84, 70, 82, 95, 65, 67, 84>>
      [] name = "STOPDT_CON" -> <<83, 84, 79, 80, 68, 84, 95, 67, 79, 78>>
      [] name = "STOPDT_ACT" -> <<83, 84, 79, 80, 68, 84, 95, 65, 67, 84>>
      [] name = "STARTDT_CON" -> <<83, 84, 65, 82, 84, 68, 84, 95, 67, 79, 78>>
      [] name = "STARTDT_ACT" -> <<83, 84, 65, 82, 84, 68, 84, 95, 65, 67, 84>>
      [] name = "NO_FUNC" -> <<78, 79, 95, 70, 85, 78, 67>>

UFrameNames == {"TESTFR_CON", "TESTFR_ACT", "STOPDT_CON", "STOPDT_ACT",
                "STARTDT_CON", "STARTDT_ACT", "NO_FUNC"}

\* quality bits (blocked, substituted, not topical, invalid)
Q(bl, sb, nt, iv) == PyTuple(<<PyInt(bl), PyInt(sb), PyInt(nt), PyInt(iv)>>)
BO(data, q) == PyTuple(<<data, q>>)
ME(number, q) == PyTuple(<<number, q>>)
SC(state, qoc) == PyTuple(<<PyInt(state), PyInt(qoc)>>)
COT(cause, pn, test) == PyTuple(<<PyChars(cause), PyInt(pn), PyInt(test)>>)

F_3_4 == PyFloat(FALSE, <<154, 153, 89, 64>>)   \* 3.4
F_1_0 == PyFloat(TRUE, <<0, 0, 128, 63>>)       \* 1.0
F_m2_5 == PyFloat(TRUE, <<0, 0, 32, 192>>)      \* -2.5
F_0_0 == PyFloat(TRUE, <<0, 0, 0, 0>>)          \* 0.0
F_1e40 == PyFloat(FALSE, <<0, 0, 128, 127>>)    \* 1e40
F_inf == PyFloat(TRUE, <<0, 0, 128, 127>>)      \* float('inf')

E_Test == BO(PyChars(s_Test), Q(0, 0, 0, 0))
Rep(e, n) == PyList([i \in 1..n |-> e])

BoMessages ==
    { PyList(<<>>),
      PyList(<<E_Test>>),
      PyList(<<E_Test, BO(PyBytes(<<0, 1, 2, 3>>), Q(1, 0, 1, 0))>>),
      PyList(<<BO(PyChars(s_Tested), Q(0, 1, 0, 1)), E_Test, BO(PyChars(s_ab), Q(1, 1, 1, 1))>>),
      PyList(<<BO(PyBytes(<<255, 254, 0, 1>>), Q(0, 0, 0, 0))>>) }

MeMessages ==
    { PyList(<<>>),
      PyList(<<ME(F_1_0, Q(0, 0, 0, 0))>>),
      PyList(<<ME(F_m2_5, Q(1, 0, 0, 1)), ME(F_1_0, Q(0, 1, 1, 0))>>),
      PyList(<<ME(F_3_4, Q(0, 0, 0, 0)), ME(F_1_0, Q(1, 1, 1, 1))>>) }

ScMessages == { PyList(<<SC(0, 63)>>), PyList(<<SC(1, 0)>>), PyList(<<SC(1, 42)>>) }
IcMessages == { PyList(<<PyInt(20)>>), PyList(<<PyInt(255)>>) }
RdMessages == { PyList(<<PyChars(s_Read)>>) }

\* messages that make an encoding fail part of the way
BadMessages ==
    { PyList(<<E_Test, PyChars(s_Test)>>),
      PyList(<<ME(F_1_0, Q(0, 0, 0, 0)), ME(F_1_0, Q(0, 2, 0, 0))>>),
      PyList(<<PyInt(256)>>),
      PyList(<<SC(0, 64)>>) }

MessagesOf(asdu_type) ==
    CASE asdu_type = "M_BO_NA_1" -> BoMessages
      [] asdu_type = "M_ME_NC_1" -> MeMessages
      [] asdu_type = "C_SC_NA_1" -> ScMessages \cup {PyList(<<>>), PyList(<<SC(0, 1), SC(1, 2)>>)}
      [] asdu_type = "C_IC_NA_1" -> IcMessages \cup {PyList(<<>>), PyList(<<PyInt(1), PyInt(2)>>)}
      [] asdu_type = "C_RD_NA_1" -> RdMessages \cup {PyList(<<>>), PyList(<<PyInt(1), PyInt(2)>>)}
      [] OTHER -> {PyList(<<E_Test>>)}

AsduTypes == {"M_BO_NA_1", "M_ME_NC_1", "C_SC_NA_1", "C_IC_NA_1", "C_RD_NA_1"}


---------------------------------------------------------------------------
(* The calls: [f |-> the operation, ... its arguments] *)

CallCreateApdu(frame, asdu_type, sequence, cot, ca, message, ssn, rsn, oa) ==
    [f |-> "create_apdu", frame |-> frame, asdu_type |-> asdu_type, sequence |-> sequence,
     cause_of_transmission |-> cot, common_address |-> ca, message |-> message,
     ssn |-> ssn, rsn |-> rsn, originator_address |-> oa]

CallWrapAsdu(asdu_type, sequence, cot, ca, message, oa) ==
    [f |-> "wrap_asdu", asdu_type |-> asdu_type, sequence |-> sequence,
     cause_of_transmission |-> cot, common_address |-> ca, message |-> message,
     originator_address |-> oa]

\* (cause of transmission, common address, ssn, rsn, originator address)
Headers ==
    { <<COT(s_periodic, 0, 0), 1, 1, 1, 0>>,
      <<COT(s_activation_confirmation, 1, 1), 65535, 32767, 0, 255>>,
      <<COT(s_request, 0, 1), 256, 0, 32767, 12>>,
      <<COT(s_return_information_due_to_remote_command, 1, 0), 5003, 2, 3, 1>>,
      <<COT(s_spontaneous, 0, 0), 0, 32767, 32767, 0>> }

H1 == <<COT(s_periodic, 0, 0), 1, 1, 1, 0>>

\* message lists around the limits of the element count and of the APDU length
LongLengths == {30, 31, 32, 48, 49, 127, 128, 129}

LongMessages(asdu_type) ==
    { Rep(IF asdu_type = "M_BO_NA_1" THEN E_Test ELSE ME(F_1_0, Q(0, 0, 0, 0)), n) : n \in LongLengths }

\* (type, message) pairs: each type with its own messages, well-formed and not
TypedMessages == UNION { {<<t, m>> : m \in MessagesOf(t)} : t \in AsduTypes }
TypedLongMessages == UNION { {<<t, m>> : m \in LongMessages(t)} : t \in {"M_BO_NA_1", "M_ME_NC_1"} }
TypedBadMessages == (AsduTypes \cup {"Test"}) \X BadMessages

CreateApduCalls ==
    { CallCreateApdu("i-frame", tm[1], PyInt(sq), h[1], PyInt(h[2]), tm[2], PyInt(h[3]), PyInt(h[4]), PyInt(h[5])) :
        tm \in TypedMessages, sq \in {0, 1}, h \in Headers }
    \cup
    { CallCreateApdu("i-frame", tm[1], PyInt(sq), H1[1], PyInt(H1[2]), tm[2], PyInt(H1[3]), PyInt(H1[4]), PyInt(H1[5])) :
        tm \in TypedLongMessages \cup TypedBadMessages, sq \in {0, 1} }
    \cup
    { CallCreateApdu(fr, "M_BO_NA_1", PyInt(0), H1[1], PyInt(1), PyList(<<E_Test>>), ssn, PyInt(rsn), PyInt(0)) :
        fr \in {"i-frame", "s-frame", "u-frame", "Test"},
        ssn \in {PyInt(-1), PyInt(0), PyInt(32768), PyChars(s_testcon)},
        rsn \in {-1, 0, 32768} }
    \cup
    { CallCreateApdu("i-frame", "C_SC_NA_1", sq, H1[1], PyInt(ca), PyList(<<SC(1, 1)>>), PyInt(0), PyInt(0), PyInt(oa)) :
        sq \in {PyInt(0), PyInt(1), PyInt(2)}, ca \in {-1, 0, 65535, 65536}, oa \in {-1, 0, 255, 256} }
    \cup \* bits given as floats, a name given as bytes, a string that has no UTF-8 form
    { CallCreateApdu("i-frame", "M_ME_NC_1", PyInt(0), H1[1], PyInt(1),
                     PyList(<<ME(F_1_0, PyTuple(<<PyInt(0), PyInt(0), F_1_0, PyInt(0)>>))>>),
                     PyInt(1), PyInt(1), PyInt(0)),
      CallCreateApdu("i-frame", "M_BO_NA_1", F_1_0, H1[1], PyInt(1), PyList(<<E_Test>>),
                     PyInt(1), PyInt(1), PyInt(0)),
      CallCreateApdu("i-frame", "M_BO_NA_1", PyInt(0), PyTuple(<<PyChars(s_periodic), PyInt(0), F_1_0>>),
                     PyInt(1), PyList(<<E_Test>>), PyInt(1), PyInt(1), PyInt(0)),
      CallCreateApdu("i-frame", "C_SC_NA_1", PyInt(0), H1[1], PyInt(1),
                     PyList(<<PyTuple(<<F_1_0, PyInt(3)>>)>>), PyInt(1), PyInt(1), PyInt(0)),
      CallCreateApdu("i-frame", "M_BO_NA_1", PyInt(0), H1[1], PyInt(1),
                     PyList(<<E_Test, BO(PyChars(<<55296>>), Q(0, 0, 0, 0))>>), PyInt(1), PyInt(1), PyInt(0)),
      CallCreateApdu("u-frame", "M_BO_NA_1", PyInt(0), H1[1], PyInt(1), PyList(<<E_Test>>),
                     PyBytes(s_con), PyInt(0), PyInt(0)) }
    \cup \* an element with fewer members than the encoder of its type reads
    { CallCreateApdu("i-frame", "C_SC_NA_1", PyInt(0), H1[1], PyInt(1), PyList(<<PyTuple(<<>>)>>),
                     PyInt(1), PyInt(1), PyInt(0)),
      CallCreateApdu("i-frame", "M_BO_NA_1", PyInt(0), H1[1], PyInt(1),
                     PyList(<<E_Test, BO(PyChars(s_Test), PyTuple(<<PyInt(0), PyInt(0), PyInt(0)>>))>>), PyInt(1), PyInt(1), PyInt(0)) }
    \cup \* a cause of transmission with fewer members than are read
    { CallCreateApdu("i-frame", "M_BO_NA_1", PyInt(0), c, PyInt(1), PyList(<<E_Test>>),
                     PyInt(1), PyInt(1), PyInt(0)) :
        c \in {PyTuple(<<>>), PyTuple(<<PyChars(s_periodic)>>), PyTuple(<<PyChars(s_periodic), PyInt(0)>>),
               PyTuple(<<PyChars(s_periodic), PyInt(5)>>)} }
    \cup \* a number too large for binary32
    { CallCreateApdu(fr, "M_ME_NC_1", PyInt(sq), H1[1], PyInt(1),
                     PyList(<<ME(F_1_0, Q(0, 0, 0, 0)), ME(F_1e40, Q(0, 0, 0, 0))>>), PyInt(1), PyInt(1), PyInt(0)) :
        fr \in {"i-frame", "s-frame"}, sq \in {0, 1} }

WrapAsduCalls ==
    { CallWrapAsdu(tm[1], PyInt(sq), H1[1], PyInt(ca), tm[2], PyInt(0)) :
        tm \in TypedMessages \cup TypedLongMessages \cup TypedBadMessages, sq \in {0, 1}, ca \in {1, 65536} }
    \cup
    { CallWrapAsdu("M_ME_NC_1", PyInt(2), H1[1], PyInt(1), PyList(<<ME(F_1_0, Q(0, 0, 0, 0))>>), PyInt(0)),
      CallWrapAsdu("M_ME_NC_1", PyInt(0), PyChars(s_periodic), PyInt(1), PyList(<<ME(F_1_0, Q(0, 0, 0, 0))>>), PyInt(0)),
      CallWrapAsdu("M_ME_NC_1", PyInt(0), COT(s_Test, 0, 0), PyInt(1), PyList(<<ME(F_1_0, Q(0, 0, 0, 0))>>), PyInt(0)),
      CallWrapAsdu("C_SC_NA_1", PyInt(0), H1[1], PyInt(1), PyList(<<PyTuple(<<F_1_0, PyInt(3)>>)>>), PyInt(0)),
      CallWrapAsdu("C_SC_NA_1", F_1_0, H1[1], PyInt(1), PyList(<<SC(1, 1)>>), PyInt(0)),
      CallWrapAsdu("M_BO_NA_1", F_1_0, H1[1], PyInt(1), PyList(<<E_Test, E_Test>>), PyInt(0)),
      CallWrapAsdu("M_BO_NA_1", F_0_0, H1[1], PyInt(1), PyList(<<E_Test, E_Test>>), PyInt(0)),
      CallWrapAsdu("M_BO_NA_1", F_3_4, H1[1], PyInt(1), PyList(<<E_Test>>), PyInt(0)),
      CallWrapAsdu("M_ME_NC_1", PyInt(0), H1[1], PyInt(1), PyList(<<ME(F_1_0, Q(0, 0, 0, 0)), ME(F_1e40, Q(0, 0, 0, 0))>>), PyInt(0)),
      CallWrapAsdu("M_ME_NC_1", PyInt(1), H1[1], PyInt(1), PyList(<<ME(F_1_0, Q(0, 0, 0, 0)), ME(F_1e40, Q(0, 0, 0, 0))>>), PyInt(0)),
      CallWrapAsdu("M_ME_NC_1", F_1_0, H1[1], PyInt(1), PyList(<<ME(F_1_0, Q(0, 0, 0, 0)), ME(F_1e40, Q(0, 0, 0, 0))>>), PyInt(0)),
      CallWrapAsdu("M_ME_NC_1", PyInt(0), H1[1], PyInt(1), PyList(<<ME(F_1_0, PyTuple(<<PyInt(0), PyInt(0), PyInt(0)>>))>>), PyInt(0)),
      CallWrapAsdu("C_SC_NA_1", PyInt(0), H1[1], PyInt(1), PyList(<<PyTuple(<<PyInt(1)>>)>>), PyInt(0)) }
    \cup \* a cause of transmission with fewer members than are read
    { CallWrapAsdu("M_BO_NA_1", PyInt(0), c, PyInt(1), PyList(<<E_Test>>), PyInt(0)) :
        c \in {PyTuple(<<>>), PyTuple(<<PyChars(s_periodic)>>), PyTuple(<<PyChars(s_periodic), PyInt(0)>>),
               PyTuple(<<PyChars(s_periodic), PyInt(5)>>)} }

TypeIds == {M_BO_NA_1, M_ME_NC_1, C_SC_NA_1, C_IC_NA_1, C_RD_NA_1}

TypeName(type_id) ==
    CASE type_id = M_BO_NA_1 -> "M_BO_NA_1"
      [] type_id = M_ME_NC_1 -> "M_ME_NC_1"
      [] type_id = C_SC_NA_1 -> "C_SC_NA_1"
      [] type_id = C_IC_NA_1 -> "C_IC_NA_1"
      [] type_id = C_RD_NA_1 -> "C_RD_NA_1"
      [] OTHER -> "Test"

\* wrap_information_object is called with a VSQ that fits the message, with
\* the SQ bit set or not, and with VSQs that do not fit
WrapInformationObjectCalls ==
    { [f |-> "wrap_information_object", type_id |-> PyInt(t), vsq |-> PyInt(v), message |-> m] :
        <<t, m, v>> \in UNION { { <<t, m, v>> : v \in {Len(m.v), Len(m.v) + 128, 1, 2, 0} }
                                : <<t, m>> \in UNION { {<<t, m>> : m \in MessagesOf(TypeName(t)) \cup BadMessages}
                                                        : t \in TypeIds \cup {-2} } } }
    \cup
    { [f |-> "wrap_information_object", type_id |-> PyInt(M_BO_NA_1), vsq |-> PyInt(127 + sq), message |-> Rep(E_Test, 127)] :
        sq \in {0, 128} }
    \cup
    { [f |-> "wrap_information_object", type_id |-> PyInt(M_ME_NC_1), vsq |-> PyInt(v), message |-> PyList(<<ME(F_1_0, Q(0, 0, 0, 0)), ME(F_1e40, Q(0, 0, 0, 0))>>)] :
        v \in {2, 130} }
    \cup
    { [f |-> "wrap_information_object", type_id |-> PyInt(C_SC_NA_1), vsq |-> PyInt(1), message |-> PyList(<<m>>)] :
        m \in {PyTuple(<<>>), PyTuple(<<PyInt(1)>>), PyTuple(<<PyInt(1), PyInt(3), PyInt(5)>>)} }
    \cup
    { [f |-> "wrap_information_object", type_id |-> PyInt(M_BO_NA_1), vsq |-> PyInt(v),
       message |-> PyList(<<E_Test, BO(PyChars(s_Test), PyTuple(<<PyInt(0), PyInt(0), PyInt(0)>>))>>)] : v \in {2, 130} }
    \cup
    { [f |-> "wrap_information_object", type_id |-> PyChars(s_Test), vsq |-> PyInt(1), message |-> PyList(<<E_Test>>)],
      [f |-> "wrap_information_object", type_id |-> PyInt(M_BO_NA_1), vsq |-> PyChars(s_Test), message |-> PyList(<<E_Test>>)],
      [f |-> "wrap_information_object", type_id |-> PyInt(M_BO_NA_1), vsq |-> PyInt(1), message |-> PyChars(s_Test)],
      [f |-> "wrap_information_object", type_id |-> PyInt(C_RD_NA_1), vsq |-> PyInt(1), message |-> Rep(PyNone, 129)],
      [f |-> "wrap_information_object", type_id |-> PyInt(C_SC_NA_1), vsq |-> PyInt(1),
         message |-> PyList(<<PyTuple(<<F_1_0, PyInt(3)>>)>>)],
      [f |-> "wrap_information_object", type_id |-> PyInt(M_ME_NC_1), vsq |-> PyInt(1),
         message |-> PyList(<<ME(F_1_0, PyTuple(<<PyInt(0), F_1_0, PyInt(0), PyInt(0)>>))>>)],
      [f |-> "wrap_information_object", type_id |-> PyInt(M_BO_NA_1), vsq |-> PyInt(2),
         message |-> PyList(<<BO(PyChars(s_Test), PyTuple(<<F_1_0, PyInt(0), PyInt(0), F_0_0>>)),
                              BO(PyChars(<<56320>>), Q(0, 0, 0, 0))>>)] }

WrapVariableStructureQualifierCalls ==
    { [f |-> "wrap_variable_structure_qualifier", type_id |-> t, sequence |-> sq, message |-> m] :
        t \in {PyInt(x) : x \in TypeIds \cup {-2}} \cup {PyChars(s_Test)},
        sq \in {PyInt(0), PyInt(1), PyInt(20), F_0_0, F_1_0, F_3_4},
        m \in {Rep(E_Test, n) : n \in {0, 1, 2, 127, 128, 129}} \cup {PyChars(s_Test)} }

WrapFrameCalls ==
    { [f |-> "wrap_frame", frame |-> fr, ssn |-> PyInt(ssn), rsn |-> PyInt(rsn)] :
        fr \in {"i-frame", "s-frame", "Test"}, ssn \in {-1, 0, 1, 300, 32767, 32768},
        rsn \in {-1, 0, 1, 300, 32767, 32768} }
    \cup
    { [f |-> "wrap_frame", frame |-> fr, ssn |-> PyChars(s_Test), rsn |-> PyChars(s_Test)] : fr \in {"i-frame", "s-frame"} }
    \cup
    { [f |-> "wrap_frame", frame |-> "u-frame", ssn |-> ssn, rsn |-> PyInt(0)] :
        ssn \in {PyChars(Chars(n)) : n \in UFrameNames}
                \cup {PyChars(s_testcon), PyChars(s_Test), PyInt(0), PyNone, F_1_0,
                      PyBytes(s_con), PyBytes(<<>>),
                      \* "\u212aon-test" (Kelvin sign), "STOP\u0130-ACT", "\u0391\u03a3-\u03a3TART.CON"
                      PyChars(<<8490, 111, 110, 45, 116, 101, 115, 116>>),
                      PyChars(<<83, 84, 79, 80, 304, 45, 65, 67, 84>>),
                      PyChars(<<913, 931, 45, 931, 84, 65, 82, 84, 46, 67, 79, 78>>)} }

CreateApduHeaderCalls ==
    { [f |-> "create_apdu_header", apdu |-> PyBytes([i \in 1..n |-> (i * 7) % 256])] :
        n \in {0, 1, 26, 252, 253, 254, 255, 300} }
    \cup { [f |-> "create_apdu_header", apdu |-> PyChars(s_Test)] }

WrapCauseOfTransmissionCalls ==
    { [f |-> "wrap_cause_of_transmission", cause_of_transmission |-> c, originator_address |-> PyInt(oa)] :
        c \in {h[1] : h \in Headers} \cup {COT(s_Test, 0, 0), COT(s_periodic, 54, 0), COT(s_periodic, 0, 54),
                                          COT(s_cyclic, 1, 0), COT(s_requested, 0, 0), COT(s_activation, 1, 1),
                                          PyChars(s_Test), PyTuple(<<PyInt(0), PyInt(0), PyInt(0)>>),
                                          PyTuple(<<PyChars(s_periodic), F_1_0, PyInt(0)>>),
                                          PyTuple(<<PyChars(s_periodic), PyInt(0), F_1_0>>),
                                          PyTuple(<<PyChars(s_spontaneous), F_0_0, F_0_0>>),
                                          PyTuple(<<PyChars(s_Test), PyInt(0), F_0_0>>),
                                          PyTuple(<<PyChars(s_periodic), F_3_4, PyInt(0)>>),
                                          PyTuple(<<>>), PyTuple(<<PyChars(s_periodic)>>),
                                          PyTuple(<<PyInt(0)>>),
                                          PyTuple(<<PyChars(s_periodic), PyInt(0)>>),
                                          PyTuple(<<PyChars(s_periodic), PyInt(5)>>),
                                          PyTuple(<<PyChars(s_Test), PyInt(1)>>),
                                          PyTuple(<<PyChars(s_periodic), PyInt(0), PyInt(1), PyInt(7)>>)},
        oa \in {-1, 0, 12, 255, 256} }

WrapCommonAddressCalls ==
    { [f |-> "wrap_common_address", common_address |-> ca] :
        ca \in {PyInt(x) : x \in {-1, 0, 1, 255, 256, 5003, 65535, 65536}} \cup {PyChars(s_Test)} }

WrapQualifierOfInterrogationCalls ==
    { [f |-> "wrap_qualifier_of_interrogation", qualifier |-> q] :
        q \in {PyInt(x) : x \in {-1, 0, 20, 255, 256}} \cup {PyChars(s_Test)} }

WrapSingleCommandCalls ==
    { [f |-> "wrap_single_command", single_command_state |-> PyInt(st), qualifier_of_command |-> q] :
        st \in {0, 1, 10}, q \in {PyInt(x) : x \in {-1, 64} \cup 0..63} \cup {PyChars(s_Test)} }
    \cup
    { [f |-> "wrap_single_command", single_command_state |-> st, qualifier_of_command |-> PyInt(q)] :
        st \in {F_0_0, F_1_0, F_3_4, PyChars(s_Test)}, q \in {3, 64} }

WrapQualifierOfCommandCalls ==
    { [f |-> "wrap_qualifier_of_command", qualifier |-> q, select_execute |-> PyInt(se)] :
        q \in {PyInt(x) : x \in {-1, 0, 1, 30, 31, 32}} \cup {PyChars(s_Test)}, se \in {0, 1, 10} }
    \cup
    { [f |-> "wrap_qualifier_of_command", qualifier |-> PyInt(q), select_execute |-> se] :
        q \in {0, 31, 32}, se \in {F_0_0, F_1_0, F_3_4} }

WrapInformationObjectAddressCalls == { [f |-> "wrap_information_object_address"] }

SetInformationObjectAddressCalls ==
    { [f |-> "set_information_object_address", information_object_address |-> x] :
        x \in {PyInt(-1), PyInt(0), PyInt(16777215), PyInt(16777216), PyChars(s_Test), F_3_4} }

\* the counter values the encoder is given before a single call is looked at
Counters == {-1, 0, 7, 65535, 16777214, 16777215, 16777216}

\* every setting of the quality bits
Qualities == { Q(bl, sb, nt, iv) : bl \in {0, 1}, sb \in {0, 1}, nt \in {0, 1}, iv \in {0, 1} }

\* bitstrings of 0 to 6 bytes, given as bytes or as a string; of the strings
\* some are longer in bytes than in characters
Bitstrings ==
    { PyBytes(b) : b \in { <<>>, <<1>>, <<1, 2>>, <<1, 2, 3>>, <<0, 1, 2, 3>>, <<255, 254, 0, 1>>,
                           <<1, 2, 3, 4, 5>>, <<1, 2, 3, 4, 5, 6>> } }
    \cup
    { PyChars(c) : c \in { <<>>, s_ab, s_Test, s_Tested, <<228, 246, 252>>, <<97, 8364>>,
                           <<8364, 8364>>, <<84, 101, 115, 233>> } }

\* the calls of the encoders of one element and of its quality descriptor
WrapElementCalls ==
    { [f |-> "wrap_quality_descriptor", overflow |-> PyInt(b[1]), blocked |-> PyInt(b[2]),
       substituted |-> PyInt(b[3]), not_topical |-> PyInt(b[4]), invalid |-> PyInt(b[5])] :
        b \in [1..5 -> {0, 1}] \cup { [i \in 1..5 |-> IF i = j THEN 10 ELSE 0] : j \in 1..5 } }
    \cup
    { [f |-> "wrap_quality_descriptor", overflow |-> b[1], blocked |-> b[2],
       substituted |-> b[3], not_topical |-> b[4], invalid |-> b[5]] :
        b \in { [i \in 1..5 |-> IF i = j THEN x ELSE PyInt(y)] :
                    j \in 1..5, x \in {F_0_0, F_1_0, F_3_4}, y \in {0, 1} } }
    \cup
    { [f |-> "wrap_information_object_m_bo_na_1", message |-> m] :
        m \in { BO(d, q) : d \in Bitstrings, q \in Qualities }
              \cup { PyChars(s_Test), BO(PyInt(1), Q(0, 0, 0, 0)), BO(PyChars(s_Test), Q(0, 10, 0, 0)),
                     BO(PyChars(s_Test), PyTuple(<<F_1_0, PyInt(0), PyInt(0), F_0_0>>)),
                     BO(PyChars(s_Tested), PyTuple(<<PyInt(0), F_1_0, F_1_0, PyInt(1)>>)),
                     PyTuple(<<>>), PyTuple(<<PyChars(s_Test)>>), PyTuple(<<PyInt(1)>>),
                     BO(PyChars(s_Test), PyTuple(<<PyInt(0), PyInt(0), PyInt(0)>>)), BO(PyChars(s_Test), PyTuple(<<>>)),
                     BO(PyChars(s_Test), PyTuple(<<PyInt(0), PyInt(10), PyInt(0)>>)),
                     BO(PyChars(s_Test), PyInt(0)), BO(PyChars(s_Test), PyChars(s_ab)),
                     BO(PyChars(s_Test), PyChars(s_Test)), BO(PyChars(s_Test), PyBytes(<<0, 1, 0, 1>>)),
                     BO(PyChars(s_Test), PyList(<<PyInt(0), PyInt(1), PyInt(0), PyInt(1)>>)),
                     BO(PyChars(s_Test), PyTuple(<<PyInt(0), PyInt(0), PyInt(0), PyInt(0), PyInt(7)>>)),
                     BO(PyChars(<<55296>>), PyTuple(<<PyInt(0), PyInt(0), PyInt(0)>>)),
                     BO(PyChars(<<55296>>), Q(0, 0, 0, 0)),
                     BO(PyChars(<<97, 57343, 98>>), Q(0, 10, 0, 0)) } }
    \cup
    { [f |-> "wrap_information_object_m_me_nc_1", message |-> m] :
        m \in { ME(x, q) : x \in {F_3_4, F_1_0, F_m2_5}, q \in Qualities }
              \cup { PyChars(s_Test), ME(PyInt(1), Q(0, 0, 0, 0)), ME(F_3_4, Q(0, 0, 0, 10)),
                     ME(F_1e40, Q(0, 0, 0, 0)), ME(F_1e40, Q(0, 10, 0, 0)), ME(F_inf, Q(0, 0, 0, 0)),
                     PyTuple(<<>>), PyTuple(<<F_1_0>>), ME(F_1_0, PyTuple(<<PyInt(0), PyInt(0), PyInt(0)>>)), ME(F_1e40, PyTuple(<<PyInt(0), PyInt(0), PyInt(0)>>)),
                     ME(F_1_0, PyNone),
                     ME(PyFloat(FALSE, <<0, 0, 128, 255>>), Q(1, 0, 0, 1)),
                     ME(PyFloat(TRUE, <<0, 0, 128, 255>>), Q(1, 0, 0, 1)),
                     ME(F_1_0, PyTuple(<<F_1_0, PyInt(0), PyInt(0), PyInt(0)>>)),
                     ME(F_1_0, PyTuple(<<PyInt(0), F_0_0, PyInt(1), F_1_0>>)) } }

StatefulCalls ==
    CreateApduCalls \cup WrapAsduCalls \cup WrapInformationObjectCalls
    \cup WrapInformationObjectAddressCalls \cup SetInformationObjectAddressCalls

PureCalls ==
    WrapVariableStructureQualifierCalls \cup WrapFrameCalls \cup CreateApduHeaderCalls
    \cup WrapCauseOfTransmissionCalls \cup WrapCommonAddressCalls
    \cup WrapQualifierOfInterrogationCalls \cup WrapSingleCommandCalls
    \cup WrapQualifierOfCommandCalls \cup WrapElementCalls


\* the calls of a session on one encoder: few, so that sequences of them stay
\* within reach
SessionCalls ==
    { [f |-> "set_information_object_address", information_object_address |-> x] :
        x \in {PyInt(-1), PyInt(16777215), PyChars(s_Test)} }
    \cup
    { [f |-> "wrap_quality_descriptor", overflow |-> PyInt(1), blocked |-> PyInt(1),
       substituted |-> PyInt(1), not_topical |-> PyInt(1), invalid |-> PyInt(1)],
      [f |-> "wrap_information_object_m_bo_na_1", message |-> BO(PyChars(s_Tested), Q(0, 0, 0, 0))],
      [f |-> "wrap_information_object_m_me_nc_1", message |-> ME(F_3_4, Q(1, 1, 1, 1))] }
    \cup WrapInformationObjectAddressCalls
    \cup
    { [f |-> "wrap_information_object", type_id |-> PyInt(M_BO_NA_1), vsq |-> PyInt(2),
         message |-> PyList(<<E_Test, E_Test>>)],
      [f |-> "wrap_information_object", type_id |-> PyInt(M_ME_NC_1), vsq |-> PyInt(130),
         message |-> PyList(<<ME(F_1_0, Q(0, 0, 0, 0)), ME(F_3_4, Q(0, 0, 0, 0))>>)],
      [f |-> "wrap_information_object", type_id |-> PyInt(M_BO_NA_1), vsq |-> PyInt(2),
         message |-> PyList(<<E_Test, PyChars(s_Test)>>)],
      CallWrapAsdu("C_SC_NA_1", PyInt(0), H1[1], PyInt(1), PyList(<<SC(1, 1)>>), PyInt(0)),
      CallWrapAsdu("M_BO_NA_1", PyInt(0), H1[1], PyInt(65536), PyList(<<E_Test>>), PyInt(0)),
      CallCreateApdu("i-frame", "M_BO_NA_1", PyInt(0), H1[1], PyInt(1), PyList(<<E_Test, E_Test, E_Test>>),
                     PyInt(1), PyInt(1), PyInt(0)),
      CallCreateApdu("s-frame", "C_RD_NA_1", PyInt(0), H1[1], PyInt(1), PyList(<<PyChars(s_Read)>>),
                     PyInt(0), PyInt(1), PyInt(0)),
      [f |-> "wrap_variable_structure_qualifier", type_id |-> PyInt(M_BO_NA_1), sequence |-> PyInt(1),
         message |-> PyList(<<E_Test>>)],
      [f |-> "wrap_frame", frame |-> "i-frame", ssn |-> PyInt(1), rsn |-> PyInt(1)],
      [f |-> "create_apdu_header", apdu |-> PyBytes(<<1, 0, 2, 0>>)],
      [f |-> "wrap_cause_of_transmission", cause_of_transmission |-> H1[1], originator_address |-> PyInt(0)],
      [f |-> "wrap_common_address", common_address |-> PyInt(5003)],
      [f |-> "wrap_qualifier_of_interrogation", qualifier |-> PyInt(20)],
      [f |-> "wrap_single_command", single_command_state |-> PyInt(1), qualifier_of_command |-> PyInt(63)],
      [f |-> "wrap_qualifier_of_command", qualifier |-> PyInt(31), select_execute |-> PyInt(1)] }

\* the operations a session performs at most
MaxSteps == 3

---------------------------------------------------------------------------
(* The state machine *)

Self == [information_object_address |-> information_object_address, emitted |-> emitted]

\* the call asks for an ASDU whose elements follow one IOA (SQ = 1); the
\* command types are encoded with SQ = 0 whatever the caller asks for
SequenceAsked ==
    IF call.f = "wrap_information_object" THEN (call.vsq.v \div 128) % 2 = 1
    ELSE Eq(call.sequence, 1) /\ call.asdu_type \in {"M_BO_NA_1", "M_ME_NC_1"}

\* The addresses of the ASDU an encoding that returns r has made: from the
\* counter on, one per element; none when it failed or made no element.
\* With SQ = 1 the elements follow one IOA and have the addresses after it.
Produced(r) ==
    IF /\ call.f \in {"wrap_information_object", "wrap_asdu", "create_apdu"}
       /\ r.ret.k = "bytes"
       /\ r.self.information_object_address # information_object_address
    THEN <<[first |-> information_object_address,
            count |-> IF SequenceAsked THEN Len(call.message.v)
                      ELSE r.self.information_object_address - information_object_address]>>
    ELSE <<>>

\* An operation ends: it returns r.ret and leaves the instance as r.self.
Return(r) ==
    /\ ret' = r.ret
    /\ information_object_address' = r.self.information_object_address
    /\ emitted' = r.self.emitted
    /\ pre' = information_object_address
    /\ pc' = "done"
    /\ produced' = produced \o Produced(r)
    /\ UNCHANGED <<call, steps, second, made>>

\* The same, for an operation that does not touch the instance.
ReturnValue(v) == Return([ret |-> v, self |-> Self])

\* A session: the state after IEC104Wrapper()
Init ==
    /\ information_object_address = 0
    /\ emitted = <<>>
    /\ overridden = FALSE
    /\ pc = "idle"
    /\ call = [f |-> "none"]
    /\ ret = PyNone
    /\ pre = 0
    /\ steps = 0
    /\ produced = <<>>
    /\ second = [information_object_address |-> 0, emitted |-> <<>>]
    /\ made = <<>>

\* The caller decides on its next call.
Invoke ==
    /\ pc \in {"idle", "done"}
    /\ steps < MaxSteps
    /\ call' \in SessionCalls
    /\ pc' = "call"
    /\ steps' = steps + 1
    /\ UNCHANGED <<information_object_address, emitted, overridden, ret, pre, produced, second, made>>

CreateApduHeader ==
    /\ pc = "call" /\ call.f = "create_apdu_header"
    /\ ReturnValue(create_apdu_header(call.apdu))
    /\ UNCHANGED overridden

CreateApdu ==
    /\ pc = "call" /\ call.f = "create_apdu"
    /\ Return(create_apdu(Self, call.frame, call.asdu_type, call.sequence, call.cause_of_transmission,
                          call.common_address, call.message, call.ssn, call.rsn, call.originator_address))
    /\ UNCHANGED overridden

WrapFrame ==
    /\ pc = "call" /\ call.f = "wrap_frame"
    /\ ReturnValue(wrap_frame(call.frame, call.ssn, call.rsn))
    /\ UNCHANGED overridden

WrapAsdu ==
    /\ pc = "call" /\ call.f = "wrap_asdu"
    /\ Return(wrap_asdu(Self, call.asdu_type, call.sequence, call.cause_of_transmission,
                        call.common_address, call.message, call.originator_address))
    /\ UNCHANGED overridden

WrapVariableStructureQualifier ==
    /\ pc = "call" /\ call.f = "wrap_variable_structure_qualifier"
    /\ ReturnValue(wrap_variable_structure_qualifier(call.type_id, call.sequence, call.message))
    /\ UNCHANGED overridden

WrapCauseOfTransmission ==
    /\ pc = "call" /\ call.f = "wrap_cause_of_transmission"
    /\ ReturnValue(wrap_cause_of_transmission(call.cause_of_transmission, call.originator_address))
    /\ UNCHANGED overridden

WrapCommonAddress ==
    /\ pc = "call" /\ call.f = "wrap_common_address"
    /\ ReturnValue(wrap_common_address(call.common_address))
    /\ UNCHANGED overridden

WrapInformationObject ==
    /\ pc = "call" /\ call.f = "wrap_information_object"
    /\ Return(wrap_information_object(Self, call.type_id, call.vsq, call.message))
    /\ UNCHANGED overridden

WrapInformationObjectAddress ==
    /\ pc = "call" /\ call.f = "wrap_information_object_address"
    /\ Return(wrap_information_object_address(Self))
    /\ UNCHANGED overridden

WrapSingleCommand ==
    /\ pc = "call" /\ call.f = "wrap_single_command"
    /\ ReturnValue(wrap_single_command(call.single_command_state, call.qualifier_of_command))
    /\ UNCHANGED overridden

WrapQualifierOfCommand ==
    /\ pc = "call" /\ call.f = "wrap_qualifier_of_command"
    /\ ReturnValue(wrap_qualifier_of_command(call.qualifier, call.select_execute))
    /\ UNCHANGED overridden

WrapQualifierOfInterrogation ==
    /\ pc = "call" /\ call.f = "wrap_qualifier_of_interrogation"
    /\ ReturnValue(wrap_qualifier_of_interrogation(call.qualifier))
    /\ UNCHANGED overridden

\* The caller overrides the counter (the setter ignores what is not an int).
SetInformationObjectAddress ==
    /\ pc = "call" /\ call.f = "set_information_object_address"
    /\ Return([ret |-> PyNone, self |-> set_information_object_address(Self, call.information_object_address)])
    /\ overridden' = (overridden \/ call.information_object_address.k = "int")

WrapQualityDescriptor ==
    /\ pc = "call" /\ call.f = "wrap_quality_descriptor"
    /\ ReturnValue(wrap_quality_descriptor(call.overflow, call.blocked, call.substituted,
                                           call.not_topical, call.invalid))
    /\ UNCHANGED overridden

WrapInformationObjectMBoNa1 ==
    /\ pc = "call" /\ call.f = "wrap_information_object_m_bo_na_1"
    /\ ReturnValue(wrap_information_object_m_bo_na_1(call.message))
    /\ UNCHANGED overridden

WrapInformationObjectMMeNc1 ==
    /\ pc = "call" /\ call.f = "wrap_information_object_m_me_nc_1"
    /\ ReturnValue(wrap_information_object_m_me_nc_1(call.message))
    /\ UNCHANGED overridden

Perform ==
    \/ CreateApduHeader
    \/ CreateApdu
    \/ WrapFrame
    \/ WrapAsdu
    \/ WrapVariableStructureQualifier
    \/ WrapCauseOfTransmission
    \/ WrapCommonAddress
    \/ WrapInformationObject
    \/ WrapInformationObjectAddress
    \/ WrapSingleCommand
    \/ WrapQualifierOfCommand
    \/ WrapQualifierOfInterrogation
    \/ SetInformationObjectAddress
    \/ WrapQualityDescriptor
    \/ WrapInformationObjectMBoNa1
    \/ WrapInformationObjectMMeNc1

Next == Invoke \/ Perform

Spec == Init /\ [][Next]_vars

\* One call looked at on its own: any call of the model, on an encoder whose
\* counter holds one of Counters (set_information_object_address takes any int).
CodecInit ==
    /\ call \in StatefulCalls \cup PureCalls
    /\ information_object_address \in (IF call \in StatefulCalls THEN Counters ELSE {0})
    /\ emitted = <<>>
    /\ overridden = (information_object_address # 0)
    /\ pc = "call"
    /\ ret = PyNone
    /\ pre = information_object_address
    /\ steps = 1
    /\ produced = <<>>
    /\ second = [information_object_address |-> 0, emitted |-> <<>>]
    /\ made = <<>>

CodecSpec == CodecInit /\ [][Perform]_vars

\* the last address an IOA can hold
LastAddress == 16777215

\* The call c made on the instance self: what it returns and how it leaves
\* the instance. These are the calls that read or write the counter.
Apply(self, c) ==
    CASE c.f = "wrap_information_object_address" -> wrap_information_object_address(self)
      [] c.f = "wrap_information_object" ->
            wrap_information_object(self, c.type_id, c.vsq, c.message)
      [] c.f = "wrap_asdu" ->
            wrap_asdu(self, c.asdu_type, c.sequence, c.cause_of_transmission,
                      c.common_address, c.message, c.originator_address)
      [] c.f = "create_apdu" ->
            create_apdu(self, c.frame, c.asdu_type, c.sequence, c.cause_of_transmission,
                        c.common_address, c.message, c.ssn, c.rsn, c.originator_address)
      [] c.f = "set_information_object_address" ->
            [ret |-> PyNone, self |-> set_information_object_address(self, c.information_object_address)]

\* A session of an encoder that has counted up to the last two addresses by
\* emitting every IOA before them: its counter was never overridden.
LimitInit ==
    /\ information_object_address = LastAddress - 1
    /\ emitted = <<>>
    /\ overridden = FALSE
    /\ pc = "idle"
    /\ call = [f |-> "none"]
    /\ ret = PyNone
    /\ pre = LastAddress - 1
    /\ steps = 0
    /\ produced = <<>>
    /\ second = [information_object_address |-> 0, emitted |-> <<>>]
    /\ made = <<>>

LimitSpec == LimitInit /\ [][Next]_vars

(* Two flows, each with its own encoder *)

\* the calls of a flow: those of a session that read or write the counter
FlowCalls ==
    { c \in SessionCalls :
        c.f \in {"set_information_object_address", "wrap_information_object_address",
                 "wrap_information_object", "wrap_asdu", "create_apdu"} }

\* the calls the two flows make at most, together
MaxFlowSteps == 4

\* the counter as an attribute of the class IEC104Wrapper, which the
\* instances would share: the first encoder's stands for it
HolderIsTheClass(n) == 1

\* The object that holds information_object_address for the encoder number n.
\* __init__ assigns the attribute through self, so each instance has it in
\* its own __dict__, and every method reads and writes it through self; the
\* class has no attribute of that name and the module no variable.
Holder(n) == n

\* the encoder number n: the first is in the variables of the single-encoder
\* sessions, the other in second
Instance(n) == IF n = 1 THEN Self ELSE second

\* Flow i made the call c on its encoder, whose attributes the object number
\* n holds, and the call came back with r: the result goes to the flow and
\* the holder keeps what the call left in it.
FlowReturns(i, c, n, r) ==
    /\ steps < MaxFlowSteps
    /\ steps' = steps + 1
    /\ call' = [flow |-> i] @@ c
    /\ pc' = "done"
    /\ ret' = r.ret
    /\ pre' = Instance(n).information_object_address
    /\ overridden' = (overridden \/ (c.f = "set_information_object_address"
                                      /\ c.information_object_address.k = "int"))
    /\ IF n = 1
       THEN /\ information_object_address' = r.self.information_object_address
            /\ emitted' = r.self.emitted
            /\ second' = second
       ELSE /\ second' = r.self
            /\ UNCHANGED <<information_object_address, emitted>>
    /\ made' = Append(made, [flow |-> i, call |-> c, ret |-> r.ret])
    /\ UNCHANGED produced

\* Flow i makes the call c on its own encoder, the encoder number i. A call
\* runs from start to end before the other flow's next call starts: the flows
\* interleave call by call.
FlowEncodes(i, c) == FlowReturns(i, c, Holder(i), Apply(Instance(Holder(i)), c))

Flow1Encodes == \E c \in FlowCalls : FlowEncodes(1, c)

Flow2Encodes == \E c \in FlowCalls : FlowEncodes(2, c)

\* both flows have made their encoder and no call yet
FlowsInit ==
    /\ information_object_address = 0
    /\ emitted = <<>>
    /\ second = [information_object_address |-> 0, emitted |-> <<>>]
    /\ made = <<>>
    /\ overridden = FALSE
    /\ pc = "idle"
    /\ call = [f |-> "none", flow |-> 0]
    /\ ret = PyNone
    /\ pre = 0
    /\ steps = 0
    /\ produced = <<>>

FlowsNext == Flow1Encodes \/ Flow2Encodes

FlowsSpec == FlowsInit /\ [][FlowsNext]_vars

---------------------------------------------------------------------------
(* What the documentation says of the codec, checked on the calls above *)

\* x is one of the integers 0 and 1
IsBit(x) == x.k = "int" /\ x.v \in {0, 1}

\* the call named f has returned
Called(f) == pc = "done" /\ call.f = f

\* the encoder as it was before the call
Before == [information_object_address |-> pre, emitted |-> <<>>]

IsIn(x, lo, hi) == x.k = "int" /\ x.v >= lo /\ x.v <= hi

\* the name unwrap_cause_of_transmission gives to the cause the caller named
CauseName(cause) ==
    LET c == wrap_cause_of_transmission(PyTuple(<<cause, PyInt(0), PyInt(0)>>), PyInt(0)) IN
    IF c.k # "bytes" THEN PyStr("")
    ELSE unwrap_cause_of_transmission(PyInt(c.v[1])).v[1]

\* what a decoder owes the caller for one element of a message: the string
\* (as encoded, cut or padded to 4 bytes) or the number, and the four quality
\* bits the caller gave; of a single command the state and the qualifier of
\* command as (qualifier, S/E), S/E being the lowest bit of what the caller gave
Payload(type_id, element) ==
    IF type_id = M_BO_NA_1
    THEN <<pack_4s(IF element.v[1].k = "chars" THEN encode(element.v[1].v).v ELSE element.v[1].v),
           element.v[2].v>>
    ELSE IF type_id = M_ME_NC_1
    THEN <<pack_f(element.v[1]).v, element.v[2].v>>
    ELSE IF type_id = C_SC_NA_1
    THEN <<PyTuple(<<element.v[1], PyTuple(<<PyInt(element.v[2].v \div 2), PyInt(element.v[2].v % 2)>>)>>)>>
    ELSE <<element>>

\* the same for an element as decoded (without its IOA and its overflow bit)
Decoded(type_id, fields) ==
    IF type_id = M_BO_NA_1
    THEN <<IF fields[1].k = "chars" THEN encode(fields[1].v).v ELSE <<>>, SubSeq(fields[2].v, 2, 5)>>
    ELSE IF type_id = M_ME_NC_1
    THEN <<pack_f(fields[1]).v, SubSeq(fields[2].v, 2, 5)>>
    ELSE fields

\* C1 (as documented): a valid I-frame message, encoded by create_apdu on an
\* encoder whose counter holds an in-range c and decoded by unwrap_apdu with
\* the number of bytes as length, comes back with the same frame type, ssn,
\* rsn, type name, (sq, element count), (cause, pn, test), originator address
\* and common address, and with information objects that carry the IOAs c,
\* c+1, ... and the payloads of the message.
C1_RoundTrip ==
    (/\ Called("create_apdu") /\ call.frame = "i-frame" /\ ret.k = "bytes"
     /\ Len(call.message.v) \in 1..30 /\ pre \in 0..16777215)
    =>
    LET d == unwrap_apdu(ret, PyInt(Len(ret.v)))
        t == wrap_asdu_type(call.asdu_type).v
        n == Len(call.message.v)
        sq == IF t \in {M_BO_NA_1, M_ME_NC_1} THEN call.sequence.v ELSE 0
        io == d.v[7]
    IN  /\ d.k = "tuple"
        /\ d.v[1] = PyTuple(<<PyStr("i-frame"), call.ssn, call.rsn>>)
        /\ d.v[2] = PyStr(call.asdu_type)
        /\ d.v[3] = PyTuple(<<PyInt(sq), PyInt(n)>>)
        /\ d.v[4] = PyTuple(<<CauseName(call.cause_of_transmission.v[1]),
                              call.cause_of_transmission.v[2], call.cause_of_transmission.v[3]>>)
        /\ d.v[5] = call.originator_address
        /\ d.v[6] = call.common_address
        /\ io.k = "list"
        /\ IF sq = 1
           THEN /\ Len(io.v) = n + 1
                /\ io.v[1] = PyInt(pre)
                /\ \A i \in 1..n : Decoded(t, io.v[i + 1].v) = Payload(t, call.message.v[i])
           ELSE /\ Len(io.v) = n
                /\ \A i \in 1..n :
                     IF t = C_RD_NA_1 THEN io.v[i] = PyInt(pre + i - 1)
                     ELSE /\ io.v[i].v[1] = PyInt(pre + i - 1)
                          /\ Decoded(t, SubSeq(io.v[i].v, 2, Len(io.v[i].v))) = Payload(t, call.message.v[i])

\* C2: wrap_frame and unwrap_frame are inverses on valid frames: an i-frame
\* with ssn and rsn in [0,32767] decodes to ('i-frame', ssn, rsn), an s-frame
\* to an s-frame with the rsn given, and each of the seven U-frame names that
\* unwrap_frame returns, handed to wrap_frame('u-frame', name, _), decodes to
\* that name.
C2_FrameInverse ==
    Called("wrap_frame") =>
    /\ (call.frame = "i-frame" /\ IsIn(call.ssn, 0, 32767) /\ IsIn(call.rsn, 0, 32767))
       => /\ ret.k = "bytes" /\ Len(ret.v) = 4
          /\ unwrap_frame(unpack_B(ret.v, 0, 4)) = PyTuple(<<PyStr("i-frame"), call.ssn, call.rsn>>)
    /\ (call.frame = "s-frame" /\ IsIn(call.rsn, 0, 32767))
       => /\ ret.k = "bytes" /\ Len(ret.v) = 4
          /\ unwrap_frame(unpack_B(ret.v, 0, 4)).k = "tuple"
          /\ unwrap_frame(unpack_B(ret.v, 0, 4)).v[1] = PyStr("s-frame")
          /\ unwrap_frame(unpack_B(ret.v, 0, 4)).v[3] = call.rsn
    /\ \A name \in UFrameNames :
         (call.frame = "u-frame" /\ call.ssn = PyChars(Chars(name)))
         => /\ ret.k = "bytes" /\ Len(ret.v) = 4
            /\ unwrap_frame(unpack_B(ret.v, 0, 4)) = PyTuple(<<PyStr("u-frame"), PyStr(name), PyInt(0)>>)

\* an i-frame with the largest ssn, and a U-frame name, have been encoded
C2_Witness ==
    /\ Called("wrap_frame")
    /\ \/ call.frame = "i-frame" /\ call.ssn = PyInt(32767) /\ call.rsn = PyInt(300)
          /\ ret = PyBytes(<<254, 255, 88, 2>>)
       \/ call.frame = "u-frame" /\ call.ssn = PyChars(Chars("STARTDT_ACT"))
          /\ ret = PyBytes(<<STARTDT_ACT, 0, 0, 0>>)

\* the 3 bytes of the IOA a, low byte first
ioa_bytes(a) == <<a % 256, (a \div 256) % 256, (a \div 65536) % 256>>

\* C3: on an encoder whose counter was never overridden, whatever encoding
\* operations have run, the i-th IOA emitted (i from 0) is the 3-byte
\* little-endian encoding of i and the counter holds the number of IOAs
\* emitted: it starts at 0 and advances by exactly 1 with each of them.
C3_CounterCountsEmissions ==
    ~overridden =>
        /\ information_object_address = Len(emitted)
        /\ \A i \in 1..Len(emitted) : emitted[i] = ioa_bytes(i - 1)

\* three operations have emitted five IOAs or more between them, the last of
\* them failing at its second element, after the two IOAs it emitted
C3_Witness ==
    /\ ~overridden /\ pc = "done" /\ steps = 3
    /\ Len(emitted) >= 5
    /\ call.f = "wrap_information_object" /\ IsStr(ret)
    /\ information_object_address = pre + 2

\* C4: a wrap_information_object that succeeds for M_BO_NA_1 or M_ME_NC_1 with
\* n >= 1 elements, on a counter that held c, returns with SQ=0 for i = 0..n-1
\* in input order the IOA c+i followed by the payload of element i and leaves
\* the counter at c+n; with SQ=1 it returns the IOA c once, followed by the n
\* payloads in input order, and leaves the counter at c+1.
C4_ObjectsInInputOrder ==
    (/\ Called("wrap_information_object") /\ ret.k = "bytes"
     /\ call.type_id.k = "int" /\ call.type_id.v \in {M_BO_NA_1, M_ME_NC_1}
     /\ call.vsq.k = "int" /\ call.vsq.v % 128 >= 1)
    =>
    LET n == Len(call.message.v)
        payload(i) == IF call.type_id.v = M_BO_NA_1
                      THEN wrap_information_object_m_bo_na_1(call.message.v[i]).v
                      ELSE wrap_information_object_m_me_nc_1(call.message.v[i]).v
    IN  IF (call.vsq.v \div 128) % 2 = 0
        THEN /\ Len(ret.v) = 8 * n
             /\ \A i \in 1..n :
                  /\ SubSeq(ret.v, 8 * (i - 1) + 1, 8 * (i - 1) + 3) = ioa_bytes(pre + i - 1)
                  /\ SubSeq(ret.v, 8 * (i - 1) + 4, 8 * i) = payload(i)
             /\ information_object_address = pre + n
             /\ emitted = [i \in 1..n |-> ioa_bytes(pre + i - 1)]
        ELSE /\ Len(ret.v) = 3 + 5 * n
             /\ SubSeq(ret.v, 1, 3) = ioa_bytes(pre)
             /\ \A i \in 1..n : SubSeq(ret.v, 5 * (i - 1) + 4, 5 * i + 3) = payload(i)
             /\ information_object_address = pre + 1
             /\ emitted = <<ioa_bytes(pre)>>

\* three different elements have been encoded from the counter 65535 on, each
\* with its own IOA, and two as a sequence under one IOA
C4_Witness ==
    /\ Called("wrap_information_object") /\ ret.k = "bytes" /\ pre = 65535
    /\ \/ /\ call.type_id = PyInt(M_BO_NA_1) /\ call.vsq = PyInt(3)
          /\ Len(call.message.v) = 3 /\ call.message.v[1] # call.message.v[2]
          /\ information_object_address = 65538
          /\ SubSeq(ret.v, 9, 11) = <<0, 0, 1>>
       \/ /\ call.type_id = PyInt(M_ME_NC_1) /\ call.vsq = PyInt(130)
          /\ call.message.v[1] # call.message.v[2]
          /\ information_object_address = 65536
          /\ Len(ret.v) = 13

\* the call returned bytes (or an integer) when ok, and the error else
Answers(ok, kind, error) == IF ok THEN ret.k = kind ELSE ret = PyStr(error)

\* C5: every range-checked input of the encoder is accepted at both bounds
\* and answered with an ERROR just outside them: ssn and rsn in [0,32767],
\* originator address in [0,255], common address in [0,65535], qualifier of
\* interrogation in [0,255], qualifier of command in [0,63] (its qualifier
\* part in [0,31]) and the IOA to emit in [0,16777215].
C5_RangeChecks ==
    /\ (Called("wrap_frame") /\ call.frame = "i-frame" /\ call.ssn.k = "int" /\ call.rsn.k = "int")
       => IF ~IsIn(call.ssn, 0, 32767)
          THEN ret = PyStr("ERROR: Send sequence number has to be an integer between 0 and 32767.")
          ELSE Answers(IsIn(call.rsn, 0, 32767), "bytes",
                       "ERROR: Receive sequence number has to be an integer between 0 and 32767.")
    /\ (Called("wrap_frame") /\ call.frame = "s-frame" /\ call.rsn.k = "int")
       => Answers(IsIn(call.rsn, 0, 32767), "bytes",
                  "ERROR: Receive sequence number has to be an integer between 0 and 32767.")
    /\ (Called("wrap_cause_of_transmission") /\ call.cause_of_transmission \in {h[1] : h \in Headers})
       => Answers(IsIn(call.originator_address, 0, 255), "bytes",
                  "ERROR: Originator address has to be an integer between 0 and 255.")
    /\ (Called("wrap_common_address") /\ call.common_address.k = "int")
       => Answers(IsIn(call.common_address, 0, 65535), "bytes",
                  "ERROR: Common address has to be an integer between 0 and 65535.")
    /\ (Called("create_apdu") /\ call.asdu_type = "C_SC_NA_1" /\ IsBit(call.sequence)
        /\ call.message = PyList(<<SC(1, 1)>>) /\ call.ssn = PyInt(0) /\ pre \in 0..16777215)
       => IF ~IsIn(call.originator_address, 0, 255)
          THEN ret = PyStr("ERROR: Originator address has to be an integer between 0 and 255.")
          ELSE Answers(IsIn(call.common_address, 0, 65535), "bytes",
                       "ERROR: Common address has to be an integer between 0 and 65535.")
    /\ (Called("wrap_qualifier_of_interrogation") /\ call.qualifier.k = "int")
       => Answers(IsIn(call.qualifier, 0, 255), "bytes",
                  "ERROR: Qualifier of interrogation has to be an integer between 0 and 255.")
    /\ (Called("wrap_single_command") /\ IsBit(call.single_command_state) /\ call.qualifier_of_command.k = "int")
       => Answers(IsIn(call.qualifier_of_command, 0, 63), "bytes",
                  "ERROR: Qualifier of command has to be an integer between 0 and 63.")
    /\ (Called("wrap_qualifier_of_command") /\ IsBit(call.select_execute) /\ call.qualifier.k = "int")
       => Answers(IsIn(call.qualifier, 0, 31), "int",
                  "ERROR: Qualifier of command has to be an integer between 0 and 31.")
    /\ Called("wrap_information_object_address")
       => /\ Answers(pre \in 0..16777215, "bytes",
                     "ERROR: Information object address has to be an integer between 0 and 16777215.")
          /\ IsStr(ret) => information_object_address = pre /\ emitted = <<>>

\* the largest IOA has been emitted, or the common address 65535 encoded
C5_Witness ==
    \/ /\ Called("wrap_information_object_address") /\ pre = 16777215
       /\ ret = PyBytes(<<255, 255, 255>>) /\ information_object_address = 16777216
    \/ /\ Called("wrap_common_address") /\ call.common_address = PyInt(65535)
       /\ ret = PyBytes(<<255, 255>>)

\* C6: create_apdu_header(body) returns the two bytes 0x68, len(body) for
\* every byte string of length 0..253 and an error for every byte string of
\* length 254 or more.
C6_HeaderLength ==
    (Called("create_apdu_header") /\ call.apdu.k = "bytes")
    => IF Len(call.apdu.v) <= 253
       THEN ret = PyBytes(<<104, Len(call.apdu.v)>>)
       ELSE ret = PyStr("ERROR: APDU too long.")

\* the header of a body of 253 bytes has been made
C6_Witness ==
    /\ Called("create_apdu_header") /\ call.apdu.k = "bytes" /\ Len(call.apdu.v) = 253
    /\ ret = PyBytes(<<104, 253>>)

\* C7 (as documented): encoding an M_BO_NA_1 or M_ME_NC_1 ASDU, with
\* wrap_variable_structure_qualifier and with wrap_asdu, succeeds for a list
\* of 127 elements and returns an error for a list of 128, with SQ=0 and with
\* SQ=1, and no ASDU is produced whose VSQ count is not the number of elements
\* supplied.
C7_ElementLimit ==
    /\ (Called("wrap_variable_structure_qualifier") /\ call.type_id \in {PyInt(M_BO_NA_1), PyInt(M_ME_NC_1)}
        /\ IsBit(call.sequence) /\ call.message.k = "list")
       => /\ Len(call.message.v) = 127 => ret = PyInt(127 + 128 * call.sequence.v)
          /\ Len(call.message.v) = 128 => IsStr(ret)
    /\ (Called("wrap_asdu") /\ call.asdu_type \in {"M_BO_NA_1", "M_ME_NC_1"}
        /\ IsBit(call.sequence) /\ call.message.k = "list" /\ call.common_address = PyInt(1)
        /\ pre \in 0..65535)
       => /\ Len(call.message.v) = 127 => ret.k = "bytes"
          /\ Len(call.message.v) = 128 => IsStr(ret)
          /\ ret.k = "bytes" => ret.v[2] % 128 = Len(call.message.v)

\* C8 (as documented): every byte string that create_apdu returns is at most
\* 253 bytes long, and a message whose encoding would be longer is rejected
\* with an error.
C8_ApduAtMost253 ==
    Called("create_apdu") => (ret.k = "bytes" => Len(ret.v) <= 253)

\* C8 (amended): create_apdu applies no limit of length: for n = 1..127 valid
\* M_BO_NA_1 or M_ME_NC_1 elements it returns 10 + 8n bytes with SQ=0 and
\* 13 + 5n bytes with SQ=1, so more than 253 from 31 (49) elements on.  The
\* limit is create_apdu_header's, which answers a result of create_apdu with
\* the header 0x68, length when it is at most 253 bytes long and with an error
\* when it is longer.
C8_LimitIsTheHeaders ==
    Called("create_apdu") =>
    /\ (/\ call.frame = "i-frame" /\ call.asdu_type \in {"M_BO_NA_1", "M_ME_NC_1"}
        /\ call.message \in LongMessages(call.asdu_type) /\ Len(call.message.v) <= 127
        /\ pre \in 0..65535)
       => /\ ret.k = "bytes"
          /\ Len(ret.v) = IF call.sequence.v = 0 THEN 10 + 8 * Len(call.message.v)
                          ELSE 13 + 5 * Len(call.message.v)
    /\ ret.k = "bytes"
       => create_apdu_header(ret) = IF Len(ret.v) <= 253 THEN PyBytes(<<104, Len(ret.v)>>)
                                    ELSE PyStr("ERROR: APDU too long.")

\* create_apdu has returned the 258 bytes of 31 elements, each with its IOA
C8_Witness ==
    /\ Called("create_apdu") /\ call.sequence = PyInt(0) /\ Len(call.message.v) = 31
    /\ ret.k = "bytes" /\ Len(ret.v) = 258
    /\ create_apdu_header(ret) = PyStr("ERROR: APDU too long.")

CommandTypes == {"C_SC_NA_1", "C_IC_NA_1", "C_RD_NA_1"}

\* C9: wrap_asdu, and so create_apdu, returns an error whenever sequence = 1
\* is asked for with C_SC_NA_1, C_IC_NA_1 or C_RD_NA_1.
C9_SequenceRefused ==
    (/\ pc = "done" /\ call.f \in {"wrap_asdu", "create_apdu"}
     /\ call.asdu_type \in CommandTypes /\ call.sequence = PyInt(1))
    => IsStr(ret)

\* C10: every ASDU that wrap_asdu produces for C_SC_NA_1, C_IC_NA_1 or
\* C_RD_NA_1 has the VSQ byte 0x01 (SQ bit 0, one element), whatever sequence
\* value the caller passed, and is produced only when the message list holds
\* exactly one element.
C10_CommandVsqIsOne ==
    /\ (Called("wrap_asdu") /\ call.asdu_type \in CommandTypes /\ ret.k = "bytes")
       => ret.v[2] = 1 /\ Len(call.message.v) = 1
    /\ (Called("create_apdu") /\ call.asdu_type \in CommandTypes /\ ret.k = "bytes")
       => ret.v[6] = 1 /\ Len(call.message.v) = 1

\* a single command asked for with sequence = 1 has been encoded
C10_Witness ==
    /\ Called("wrap_asdu") /\ call.asdu_type = "C_SC_NA_1" /\ call.sequence = PyInt(1)
    /\ Len(call.message.v) = 1 /\ ret.k = "bytes" /\ ret.v[2] = 1 /\ Len(ret.v) = 10

\* C11 (as documented): create_apdu appends an ASDU only for the frame
\* 'i-frame': for 's-frame' and 'u-frame' it returns exactly the 4 bytes of
\* the APCI (or what wrap_frame answered), looks at none of the ASDU
\* arguments and leaves the IOA counter as it was.
C11_AsduOnlyInIFrames ==
    (Called("create_apdu") /\ call.frame \in {"s-frame", "u-frame"})
    => /\ ret = wrap_frame(call.frame, call.ssn, call.rsn)
       /\ information_object_address = pre
       /\ emitted = <<>>

---------------------------------------------------------------------------
(* The decoder: the calls on an IEC104Unwrapper, which keeps no state *)

\* a new encoder
Fresh == [information_object_address |-> 0, emitted |-> <<>>]

\* the APDUs create_apdu returns for the I-frame messages of the model
EncodedApdus ==
    { r \in { create_apdu(Fresh, "i-frame", tm[1], PyInt(sq), h[1], PyInt(h[2]), tm[2],
                          PyInt(h[3]), PyInt(h[4]), PyInt(h[5])).ret :
                tm \in TypedMessages, sq \in {0, 1}, h \in Headers } : r.k = "bytes" }

\* APDUs as they come from the wire: S- and U-frames without an ASDU, an
\* S-frame as create_apdu makes it, ASDUs whose VSQ counts no element with
\* and without bytes behind the ASDU header, an unknown type, an unknown
\* cause, APDUs that end too early, and a measured value whose 4 bytes are
\* those of a signalling NaN
WireApdus ==
    { PyBytes(<<1, 0, 2, 0>>), PyBytes(<<1, 0, 254, 255>>),
      PyBytes(<<STARTDT_ACT, 0, 0, 0>>), PyBytes(<<TESTFR_CON, 0, 0, 0>>),
      PyBytes(<<5, 0, 2, 0>>), PyBytes(<<15, 0, 0, 0>>),
      PyBytes(<<1, 0, 0, 0, 7, 1, 1, 0, 1, 0, 0, 0, 0, 84, 101, 115, 116, 0>>),
      PyBytes(<<2, 0, 2, 0, 7, 0, 1, 0, 1, 0>>),
      PyBytes(<<2, 0, 2, 0, 13, 128, 3, 12, 255, 255>>),
      PyBytes(<<2, 0, 2, 0, 7, 0, 1, 0, 1, 0, 0, 0>>),
      PyBytes(<<2, 0, 2, 0, 45, 0, 6, 0, 1, 2, 7, 0, 0, 129>>),
      PyBytes(<<2, 0, 2, 0, 9, 1, 1, 0, 1, 0, 0, 0, 0, 84, 101, 115, 116, 0>>),
      PyBytes(<<2, 0, 2, 0, 7, 1, 2, 0, 1, 0, 0, 0, 0, 84, 101, 115, 116, 0>>),
      PyBytes(<<2, 0, 2, 0, 7, 1, 1, 0, 1, 0, 0, 0, 0, 84, 101>>),
      PyBytes(<<2, 0, 2, 0, 7, 1, 1>>),
      PyBytes(<<2, 0, 2, 0, 13, 1, 3, 0, 1, 0, 1, 2, 3, 1, 0, 128, 127, 0>>),
      PyBytes(<<2, 0>>) }

\* unwrap_apdu is given the number of bytes as length, and lengths beside it
UnwrapApduCalls ==
    { [f |-> "unwrap_apdu", apdu |-> a, length |-> PyInt(Len(a.v) + d)] :
        a \in EncodedApdus \cup WireApdus, d \in {-2, 0, 2, 3} }
    \cup
    { [f |-> "unwrap_apdu", apdu |-> a, length |-> PyInt(l)] : a \in WireApdus, l \in {4, 10} }
    \cup
    { [f |-> "unwrap_apdu", apdu |-> PyChars(s_Test), length |-> PyInt(10)],
      [f |-> "unwrap_apdu", apdu |-> PyBytes(<<2, 0, 2, 0, 7, 0, 1, 0, 1, 0>>), length |-> PyChars(s_Test)] }

\* every first byte, with three settings of the other three
UnwrapFrameCalls ==
    { [f |-> "unwrap_frame", frame |-> PyTuple([j \in 1..4 |-> PyInt((<<b0>> \o rest)[j])])] :
        b0 \in 0..255, rest \in {<<0, 0, 0>>, <<0, 4, 1>>, <<255, 254, 255>>} }
    \cup
    { [f |-> "unwrap_frame", frame |-> PyTuple(<<PyInt(0), PyInt(0), PyInt(0)>>)],
      [f |-> "unwrap_frame", frame |-> PyChars(s_Test)],
      [f |-> "unwrap_frame", frame |-> PyTuple(<<PyInt(-2), PyInt(-1), PyInt(256), PyInt(300)>>)],
      [f |-> "unwrap_frame", frame |-> PyTuple(<<PyInt(257), PyInt(0), PyInt(-4), PyInt(1)>>)] }
    \cup \* a member that is no integer, in each place
    { [f |-> "unwrap_frame", frame |-> PyTuple([j \in 1..4 |-> IF j = at THEN x ELSE PyInt(IF j = 1 THEN b0 ELSE 0)])] :
        b0 \in {0, 1, 3, 5, 131}, at \in 1..4, x \in {PyChars(s_Test), F_1_0, PyNone} }

\* the calls of the decoders of one field: every value of the byte where the
\* table of the field is closed, and arguments of the wrong type
UnwrapFieldCalls ==
    { [f |-> "unwrap_header", header |-> h] :
        h \in { PyBytes(<<104, n>>) : n \in {0, 4, 9, 10, 26, 253, 254, 255} }
              \cup { PyBytes(<<96, 26>>), PyBytes(<<104>>), PyBytes(<<104, 26, 17>>), PyBytes(<<>>),
                     PyChars(s_Test) } }
    \cup
    { [f |-> "unwrap_type_identification", type_id |-> t] :
        t \in { PyInt(x) : x \in -1..255 } \cup { PyChars(s_Test) } }
    \cup
    { [f |-> "unwrap_variable_structure_qualifier", vsq |-> v] :
        v \in { PyInt(x) : x \in {0, 1, 2, 127, 128, 129, 255} } \cup { PyChars(s_Test) } }
    \cup
    { [f |-> "unwrap_cause_of_transmission", cot |-> c] :
        c \in { PyInt(x) : x \in -1..255 } \cup { PyChars(s_Test) } }
    \cup
    { [f |-> "unwrap_information_object_address", ioa |-> a] :
        a \in { PyTuple([j \in 1..Len(t) |-> PyInt(t[j])]) :
                   t \in {<<0, 0, 0>>, <<1, 2, 3>>, <<255, 255, 255>>, <<1, 2>>, <<1, 2, 3, 4>>,
                          <<-1, 0, 0>>, <<256, 256, 256>>, <<>>} }
              \cup { PyChars(s_Test), PyInt(1), PyList(<<PyInt(1), PyInt(2), PyInt(3)>>),
                     PyTuple(<<PyChars(s_Test), PyInt(0), PyInt(0)>>),
                     PyTuple(<<PyInt(0), PyChars(s_Test), PyInt(0)>>),
                     PyTuple(<<PyInt(0), PyInt(0), PyChars(s_Test)>>),
                     PyTuple(<<F_1_0, PyInt(2), PyInt(3)>>),
                     PyTuple(<<PyInt(1), PyInt(2), PyNone>>) } }
    \cup
    { [f |-> "unwrap_quality_descriptor", qds |-> q] :
        q \in { PyInt(x) : x \in 0..255 } \cup { PyChars(s_Test) } }
    \cup
    { [f |-> "unwrap_single_command", sco |-> s] :
        s \in { PyInt(x) : x \in 0..255 } \cup { PyChars(s_Test) } }
    \cup
    { [f |-> "unwrap_qualifier_of_command", qoc |-> q] :
        q \in { PyInt(x) : x \in 0..63 } \cup { PyChars(s_Test) } }
    \cup
    { [f |-> "unwrap_qualifier_of_interrogation", qualifier |-> q] :
        q \in { PyInt(x) : x \in {-1, 0, 20, 255, 256} } \cup { PyChars(s_Test) } }

\* the information objects wrap_information_object returns for the messages
\* of the model, both ways of addressing
EncodedObjects ==
    { r \in { wrap_information_object(Fresh, PyInt(t), PyInt(Len(m.v) + sq), m).ret :
                <<t, m, sq>> \in UNION { { <<t, m, sq>> : m \in MessagesOf(TypeName(t)), sq \in {0, 128} }
                                         : t \in TypeIds } }
      : r.k = "bytes" /\ Len(r.v) > 0 }

\* the 10 bytes in front of the information objects of an APDU
ApduPrefix == <<2, 0, 2, 0, 100, 1, 6, 0, 1, 0>>

\* unwrap_information_objects is given information objects alone (offset 0)
\* or behind the APCI and the ASDU header (offset 10), with every type, both
\* SQ bits, element counts 0..3, and a byte length that is the real one, the
\* one the count asks for, or beside them; and with an offset counted from
\* the end of the buffer: the start of the objects, one byte before the
\* buffer, and places with too few bytes behind them
UnwrapInformationObjectsCalls ==
    { [f |-> "unwrap_information_objects", type_id |-> PyInt(c[1]), sequence |-> PyInt(c[2]),
       asdu_length |-> PyInt(c[3]), asdu |-> PyBytes(c[4]), length |-> PyInt(c[5]), offset |-> PyInt(c[6])] :
        c \in UNION { { <<t, sq, n, IF o = 0 THEN r.v ELSE ApduPrefix \o r.v, l, o>> :
                          l \in {Len(r.v), Len(r.v) + 1, n * 5 + 3, n * 8, n + 3, 3} }
                      : <<r, t, sq, n, o>> \in EncodedObjects \X (TypeIds \cup {-2, 1}) \X {0, 1}
                                                \X (0..3) \X {0, 10} } }
    \cup
    { [f |-> "unwrap_information_objects", type_id |-> PyChars(s_Test), sequence |-> PyInt(0),
       asdu_length |-> PyInt(1), asdu |-> PyBytes(<<1, 0, 0>>), length |-> PyInt(3), offset |-> PyInt(0)],
      [f |-> "unwrap_information_objects", type_id |-> PyInt(C_RD_NA_1), sequence |-> PyInt(2),
       asdu_length |-> PyInt(1), asdu |-> PyBytes(<<1, 0, 0>>), length |-> PyInt(3), offset |-> PyInt(0)],
      [f |-> "unwrap_information_objects", type_id |-> PyInt(C_RD_NA_1), sequence |-> PyInt(0),
       asdu_length |-> PyChars(s_Test), asdu |-> PyBytes(<<1, 0, 0>>), length |-> PyInt(3), offset |-> PyInt(0)],
      [f |-> "unwrap_information_objects", type_id |-> PyInt(C_RD_NA_1), sequence |-> PyInt(0),
       asdu_length |-> PyInt(1), asdu |-> PyChars(s_Test), length |-> PyInt(3), offset |-> PyInt(0)],
      [f |-> "unwrap_information_objects", type_id |-> PyInt(C_RD_NA_1), sequence |-> PyInt(0),
       asdu_length |-> PyInt(1), asdu |-> PyBytes(<<1, 0, 0>>), length |-> PyChars(s_Test), offset |-> PyInt(0)] }
    \cup
    { [f |-> "unwrap_information_objects", type_id |-> PyInt(t), sequence |-> PyInt(sq),
       asdu_length |-> PyInt(n), asdu |-> PyBytes(IF p = 0 THEN r.v ELSE ApduPrefix \o r.v),
       length |-> PyInt(Len(r.v)), offset |-> PyInt(IF d >= 0 THEN 0 - Len(r.v) - d ELSE d)] :
        <<r, t, sq, n, p>> \in EncodedObjects \X TypeIds \X {0, 1} \X (1..2) \X {0, 10},
        d \in {0, 1, 10, 11, -6, -4, -2, -1} }
    \cup \* an offset that is no integer
    { [f |-> "unwrap_information_objects", type_id |-> PyInt(c[1]), sequence |-> PyInt(c[2]),
       asdu_length |-> PyInt(1), asdu |-> PyBytes(c[3]), length |-> PyInt(c[4]), offset |-> o] :
        c \in {<<7, 0, <<1, 0, 0, 84, 101, 115, 116, 0>>, 8>>,
               <<7, 1, <<1, 0, 0, 84, 101, 115, 116, 0>>, 8>>,
               <<13, 0, <<1, 0, 0, 0, 0, 128, 63, 0>>, 8>>,
               <<13, 1, <<1, 0, 0, 0, 0, 128, 63, 0>>, 8>>,
               <<7, 0, <<1, 0, 0, 84, 101, 115, 116, 0>>, 7>>,
               <<45, 0, <<1, 0, 0, 13>>, 4>>, <<100, 0, <<1, 0, 0, 20>>, 4>>,
               <<100, 0, <<1, 0>>, 4>>, <<102, 0, <<1, 0, 0>>, 3>>,
               <<45, 1, <<1, 0, 0, 13>>, 4>>, <<1, 0, <<1, 0, 0>>, 3>>},
        o \in {PyChars(s_Test), F_1_0, PyNone} }
    \cup \* measured values that are NaNs, signalling and quiet, and an infinity
    { [f |-> "unwrap_information_objects", type_id |-> PyInt(M_ME_NC_1), sequence |-> PyInt(sq),
       asdu_length |-> PyInt(1), asdu |-> PyBytes(<<1, 2, 3>> \o b \o <<0>>), length |-> PyInt(8),
       offset |-> PyInt(0)] :
        sq \in {0, 1},
        b \in {<<1, 0, 128, 127>>, <<1, 0, 128, 255>>, <<0, 0, 160, 127>>, <<255, 255, 191, 127>>,
               <<0, 1, 128, 127>>, <<0, 0, 192, 127>>, <<0, 0, 128, 127>>, <<1, 0, 0, 127>>} }
    \cup
    { [f |-> "unwrap_information_objects", type_id |-> PyInt(M_ME_NC_1), sequence |-> PyInt(0),
       asdu_length |-> PyInt(2),
       asdu |-> PyBytes(<<1, 2, 3, 84, 101, 115, 116, 65, 4, 5, 6, 1, 0, 128, 127, 16>>),
       length |-> PyInt(16), offset |-> PyInt(0)] }

DecoderCalls ==
    UnwrapApduCalls \cup UnwrapFrameCalls \cup UnwrapInformationObjectsCalls \cup UnwrapFieldCalls

\* One action per method of IEC104Unwrapper
UnwrapHeader ==
    /\ pc = "call" /\ call.f = "unwrap_header"
    /\ ReturnValue(unwrap_header(call.header))
    /\ UNCHANGED overridden

UnwrapApdu ==
    /\ pc = "call" /\ call.f = "unwrap_apdu"
    /\ ReturnValue(unwrap_apdu(call.apdu, call.length))
    /\ UNCHANGED overridden

UnwrapFrame ==
    /\ pc = "call" /\ call.f = "unwrap_frame"
    /\ ReturnValue(unwrap_frame(call.frame))
    /\ UNCHANGED overridden

UnwrapTypeIdentification ==
    /\ pc = "call" /\ call.f = "unwrap_type_identification"
    /\ ReturnValue(unwrap_type_identification(call.type_id))
    /\ UNCHANGED overridden

UnwrapVariableStructureQualifier ==
    /\ pc = "call" /\ call.f = "unwrap_variable_structure_qualifier"
    /\ ReturnValue(unwrap_variable_structure_qualifier(call.vsq))
    /\ UNCHANGED overridden

UnwrapCauseOfTransmission ==
    /\ pc = "call" /\ call.f = "unwrap_cause_of_transmission"
    /\ ReturnValue(unwrap_cause_of_transmission(call.cot))
    /\ UNCHANGED overridden

UnwrapInformationObjects ==
    /\ pc = "call" /\ call.f = "unwrap_information_objects"
    /\ ReturnValue(unwrap_information_objects(call.type_id, call.sequence, call.asdu_length,
                                              call.asdu, call.length, call.offset))
    /\ UNCHANGED overridden

UnwrapInformationObjectAddress ==
    /\ pc = "call" /\ call.f = "unwrap_information_object_address"
    /\ ReturnValue(unwrap_information_object_address(call.ioa))
    /\ UNCHANGED overridden

UnwrapQualityDescriptor ==
    /\ pc = "call" /\ call.f = "unwrap_quality_descriptor"
    /\ ReturnValue(unwrap_quality_descriptor(call.qds))
    /\ UNCHANGED overridden

UnwrapSingleCommand ==
    /\ pc = "call" /\ call.f = "unwrap_single_command"
    /\ ReturnValue(unwrap_single_command(call.sco))
    /\ UNCHANGED overridden

UnwrapQualifierOfCommand ==
    /\ pc = "call" /\ call.f = "unwrap_qualifier_of_command"
    /\ ReturnValue(unwrap_qualifier_of_command(call.qoc))
    /\ UNCHANGED overridden

UnwrapQualifierOfInterrogation ==
    /\ pc = "call" /\ call.f = "unwrap_qualifier_of_interrogation"
    /\ ReturnValue(unwrap_qualifier_of_interrogation(call.qualifier))
    /\ UNCHANGED overridden

Decode ==
    \/ UnwrapHeader
    \/ UnwrapApdu
    \/ UnwrapFrame
    \/ UnwrapTypeIdentification
    \/ UnwrapVariableStructureQualifier
    \/ UnwrapCauseOfTransmission
    \/ UnwrapInformationObjects
    \/ UnwrapInformationObjectAddress
    \/ UnwrapQualityDescriptor
    \/ UnwrapSingleCommand
    \/ UnwrapQualifierOfCommand
    \/ UnwrapQualifierOfInterrogation

\* one call on a decoder; the encoder's counter plays no part in it
DecoderInit ==
    /\ call \in DecoderCalls
    /\ information_object_address = 0
    /\ emitted = <<>>
    /\ overridden = FALSE
    /\ pc = "call"
    /\ ret = PyNone
    /\ pre = 0
    /\ steps = 1
    /\ produced = <<>>
    /\ second = [information_object_address |-> 0, emitted |-> <<>>]
    /\ made = <<>>

DecoderSpec == DecoderInit /\ [][Decode]_vars

---------------------------------------------------------------------------
(* Claims about the decoder *)

\* the frame the first four bytes of the APDU of the call decode to
FrameOfCall == unwrap_frame(unpack_B(call.apdu.v, 0, 4))

\* C12 (as documented): an APDU that is only an S-frame or a U-frame, with the
\* declared length 4, is decoded by unwrap_apdu to that frame; the minimum
\* length of 10 holds for I-frames only.
C12_FramesWithoutAsdu ==
    (/\ Called("unwrap_apdu")
     /\ call.apdu.k = "bytes" /\ Len(call.apdu.v) = 4
     /\ call.length = PyInt(4)
     /\ FrameOfCall.k = "tuple"
     /\ FrameOfCall.v[1].v \in {"s-frame", "u-frame"})
    => /\ ~IsStr(ret)
       /\ ret.k # "raise"

\* a call of unwrap_frame on a tuple of four bytes has returned
FrameDecoded ==
    /\ Called("unwrap_frame") /\ call.frame.k = "tuple" /\ Len(call.frame.v) = 4
    /\ \A j \in 1..4 : call.frame.v[j].k = "int"

\* the four bytes of that tuple
FrameBytes == [j \in 1..4 |-> call.frame.v[j].v]

FrameTypeError == PyStr("ERROR: Frame type could not be determined.")

\* C13 (as documented): every control field whose first byte has
\* (b0 & 3) == 1 is an S-frame with rsn = (b3<<7) | (b2>>1), and the
\* frame-type error is returned only for a first byte that fits none of the
\* I, S and U bit patterns.
C13_EveryMaskedByteIsSFrame ==
    FrameDecoded =>
        LET b == FrameBytes IN
        /\ b[1] % 4 = 1 => /\ ret.k = "tuple"
                           /\ ret.v[1] = PyStr("s-frame")
                           /\ ret.v[3] = PyInt(b[4] * 128 + (b[3] \div 2))
        /\ ret = FrameTypeError => (b[1] % 2 # 0 /\ b[1] % 4 # 1 /\ b[1] % 4 # 3)

\* C13 (amended): the S-frame is the control field whose first byte is
\* exactly 1; it is returned as ('s-frame', 1, (b3<<7) | (b2>>1)).  Every
\* other first byte with (b0 & 3) == 1 gets the frame-type error, and no
\* other control field does.
C13_SFrameIsByteOne ==
    FrameDecoded =>
        LET b == FrameBytes IN
        /\ b[1] = 1 => ret = PyTuple(<<PyStr("s-frame"), PyInt(1), PyInt(b[4] * 128 + (b[3] \div 2))>>)
        /\ ret = FrameTypeError <=> (b[1] % 4 = 1 /\ b[1] # 1)

C13_Witness ==
    /\ FrameDecoded
    /\ FrameBytes = <<1, 255, 254, 255>>
    /\ ret = PyTuple(<<PyStr("s-frame"), PyInt(1), PyInt(32767)>>)

\* the names the documentation gives to the values of the three tables
FunctionOf(b0) ==
    CASE b0 = 131 -> "TESTFR_CON" [] b0 = 67 -> "TESTFR_ACT" [] b0 = 35 -> "STOPDT_CON"
      [] b0 = 19 -> "STOPDT_ACT" [] b0 = 11 -> "STARTDT_CON" [] b0 = 7 -> "STARTDT_ACT"
      [] b0 = 3 -> "NO_FUNC" [] OTHER -> ""

TypeOf(id) ==
    CASE id = 7 -> "M_BO_NA_1" [] id = 13 -> "M_ME_NC_1" [] id = 45 -> "C_SC_NA_1"
      [] id = 100 -> "C_IC_NA_1" [] id = 102 -> "C_RD_NA_1" [] OTHER -> ""

CauseOf(id) ==
    CASE id = 1 -> "periodic" [] id = 3 -> "spontaneous" [] id = 5 -> "request or requested"
      [] id = 6 -> "activation" [] id = 7 -> "activation confirmation"
      [] id = 11 -> "return information by remote command" [] OTHER -> ""

\* C14: the tables of the decoder are closed.  unwrap_frame returns the name
\* of a U-frame function iff b0 is one of 131, 67, 35, 19, 11, 7, 3 and the
\* unknown-function error for every other b0 with (b0 & 3) == 3;
\* unwrap_type_identification returns a type name iff the id is one of 7, 13,
\* 45, 100, 102; unwrap_cause_of_transmission returns
\* (cause, (cot>>6)&1, (cot>>7)&1) iff cot & 0x3F is one of 1, 3, 5, 6, 7, 11
\* and the unknown-cause error otherwise.
C14_ClosedTables ==
    /\ FrameDecoded =>
        LET b0 == FrameBytes[1] IN
        /\ FunctionOf(b0) # "" => ret = PyTuple(<<PyStr("u-frame"), PyStr(FunctionOf(b0)), PyInt(0)>>)
        /\ (FunctionOf(b0) = "" /\ b0 % 4 = 3) => ret = PyStr("ERROR: Function type could not be determined.")
        /\ (ret.k = "tuple" /\ ret.v[1] = PyStr("u-frame")) => FunctionOf(b0) # ""
    /\ (Called("unwrap_type_identification") /\ call.type_id.k = "int") =>
        IF TypeOf(call.type_id.v) # "" THEN ret = PyStr(TypeOf(call.type_id.v))
        ELSE ret = PyStr("ERROR: The ASDU type was not recognized.")
    /\ (Called("unwrap_cause_of_transmission") /\ call.cot.k = "int") =>
        LET cot == call.cot.v IN
        IF CauseOf(cot % 64) # ""
        THEN ret = PyTuple(<<PyStr(CauseOf(cot % 64)), PyInt((cot \div 64) % 2), PyInt((cot \div 128) % 2)>>)
        ELSE ret = PyStr("ERROR: No cause of transmission was found.")

\* activation confirmation with the P/N bit and the test bit set
C14_Witness ==
    /\ Called("unwrap_cause_of_transmission")
    /\ call.cot = PyInt(199)
    /\ ret = PyTuple(<<PyStr("activation confirmation"), PyInt(1), PyInt(1)>>)

\* C15 (as documented): the common address unwrap_apdu returns is the 16-bit
\* little-endian value of the bytes 8 and 9 of the APDU, b8 + 256 * b9, so
\* that what wrap_common_address wrote comes back unchanged.
C15_CommonAddressIsTwoBytes ==
    (Called("unwrap_apdu") /\ ret.k = "tuple")
    => ret.v[6] = PyInt(byte_at(call.apdu.v, 8) + 256 * byte_at(call.apdu.v, 9))

\* a call of unwrap_information_objects with arguments of the right types
\* and an element count of at least 1 has returned
ObjectsDecoded ==
    /\ Called("unwrap_information_objects")
    /\ call.type_id.k = "int" /\ IsBit(call.sequence) /\ call.asdu.k = "bytes" /\ call.length.k = "int"
    /\ call.asdu_length.k = "int" /\ call.asdu_length.v >= 1 /\ call.offset.k = "int"

LengthMismatch == PyStr("ERROR: The expected ASDU length does not equal the real length.")

\* the byte length the documentation expects for n elements; 0 where the
\* type, the SQ bit and n do not go together
ExpectedLength(type_id, sq, n) ==
    IF type_id \in {7, 13} THEN (IF sq = 1 THEN 5 * n + 3 ELSE 8 * n)
    ELSE IF type_id \in {45, 100} /\ sq = 0 /\ n = 1 THEN 4
    ELSE IF type_id = 102 /\ sq = 0 /\ n = 1 THEN 3
    ELSE 0

\* C16 (as documented): unwrap_information_objects with n >= 1 elements
\* returns the length-mismatch error exactly when the declared length differs
\* from 5n+3 (SQ=1) or 8n (SQ=0) for M_BO_NA_1 and M_ME_NC_1, from 4 for
\* C_SC_NA_1 and C_IC_NA_1 and from 3 for C_RD_NA_1 (n = 1); with a matching
\* length it returns the n decoded elements (behind the common IOA when SQ=1).
\* Stated for buffers that hold the declared bytes behind the offset.
C16_LengthDecides ==
    (/\ ObjectsDecoded
     /\ ExpectedLength(call.type_id.v, call.sequence.v, call.asdu_length.v) # 0
     /\ can_unpack(call.asdu.v, call.offset.v, call.length.v))
    => IF call.length.v # ExpectedLength(call.type_id.v, call.sequence.v, call.asdu_length.v)
       THEN ret = LengthMismatch
       ELSE /\ ret.k = "list"
            /\ Len(ret.v) = call.asdu_length.v + call.sequence.v

\* unwrap_apdu has returned for an APDU whose first ten bytes decode and
\* whose VSQ counts no element
NoElementsDecoded ==
    /\ Called("unwrap_apdu")
    /\ call.apdu.k = "bytes" /\ Len(call.apdu.v) >= 10
    /\ call.length.k = "int" /\ call.length.v >= 10
    /\ ~IsStr(FrameOfCall)
    /\ TypeOf(byte_at(call.apdu.v, 4)) # ""
    /\ byte_at(call.apdu.v, 5) % 128 = 0
    /\ CauseOf(byte_at(call.apdu.v, 6) % 64) # ""

\* C17 (as documented): when the VSQ counts 0 elements, unwrap_apdu returns
\* the 'No information objects/elements.' sentinel if the declared length
\* minus 10 is 0, and the unexpected-payload error if it is not.
C17_ResidualOfDeclaredLength ==
    NoElementsDecoded =>
        IF call.length.v - 10 = 0
        THEN ret.k = "tuple" /\ ret.v[7] = PyStr("No information objects/elements.")
        ELSE ret = PyStr("ERROR: No information object was expected but the APDU still contains information.")

\* C18: unwrap_information_objects returns an error, and never decoded
\* objects, for C_SC_NA_1, C_IC_NA_1 and C_RD_NA_1 whenever the element
\* count is not 1 or SQ is 1, and for every type id outside the five known
\* ones with either SQ value.
C18_CommandsAreSingleObjects ==
    (/\ Called("unwrap_information_objects")
     /\ call.type_id.k = "int" /\ IsBit(call.sequence) /\ call.asdu_length.k = "int"
     /\ call.asdu.k = "bytes" /\ call.length.k = "int"
     /\ \/ call.type_id.v \in {45, 100, 102} /\ (call.asdu_length.v # 1 \/ call.sequence.v = 1)
        \/ call.type_id.v \notin {7, 13, 45, 100, 102})
    => ret.k = "str"

\* two single commands in a region of the length that two would have
C18_Witness ==
    /\ Called("unwrap_information_objects")
    /\ call.type_id.v = 45 /\ call.sequence.v = 0 /\ call.asdu_length.v = 2
    /\ call.length.v = 5 /\ call.offset.k = "int" /\ can_unpack(call.asdu.v, call.offset.v, 5)
    /\ ret = PyStr("ERROR: C_SC_NA_1 expects only one information object.")

---------------------------------------------------------------------------
(* Claims about the encoders of one element *)

\* the bytes of the bitstring a caller gave: the bytes themselves, or the
\* UTF-8 encoding of the string
InputBytes(data) == IF data.k = "bytes" THEN data.v ELSE encode(data.v).v

\* the four quality bits the encoder of an element reads from `quality`
Bits(quality) == [i \in 1..4 |-> Item(quality, i - 1)]

\* a well-formed M_BO_NA_1 element has been encoded: a bitstring, given as
\* bytes or as a string that has a UTF-8 form, and four bits
BoEncoded ==
    /\ Called("wrap_information_object_m_bo_na_1")
    /\ call.message.k = "tuple"
    /\ Item(call.message, 0).k \in {"bytes", "chars"}
    /\ call.message.v[1].k = "chars" => encode(call.message.v[1].v).k = "bytes"
    /\ \A i \in 1..4 : In01(Bits(Item(call.message, 1))[i])

\* C19: wrap_information_object_m_bo_na_1 emits exactly 5 bytes for every
\* bitstring: the first 4 bytes of the input, padded with 0x00 when the
\* input is shorter, and a QDS byte whose bit 0 (overflow) is 1 if and only
\* if the input was longer than 4 bytes.
C19_FourBytesAndOverflow ==
    BoEncoded =>
        LET input == InputBytes(call.message.v[1]) IN
        /\ ret.k = "bytes"
        /\ Len(ret.v) = 5
        /\ \A i \in 1..4 : ret.v[i] = (IF i <= Len(input) THEN input[i] ELSE 0)
        /\ ret.v[5] % 2 = 1 <=> Len(input) > 4

\* four characters that make five bytes: cut after the fourth byte, overflow
C19_Witness ==
    /\ BoEncoded
    /\ call.message.v[1] = PyChars(<<84, 101, 115, 233>>)
    /\ ret = PyBytes(<<84, 101, 115, 195, 1>>)

\* the byte qds has the bits 1 to 3 clear and blocked, substituted, not
\* topical and invalid, as the caller gave them in q, in the bits 4 to 7
Carries(qds, q) ==
    /\ (qds \div 2) % 8 = 0
    /\ (qds \div 16) % 2 = 1 <=> Eq(q[1], 1)
    /\ (qds \div 32) % 2 = 1 <=> Eq(q[2], 1)
    /\ (qds \div 64) % 2 = 1 <=> Eq(q[3], 1)
    /\ (qds \div 128) % 2 = 1 <=> Eq(q[4], 1)

\* where the QDS byte of element i is in the information objects
QdsAt(sq, i) == IF sq = 1 THEN 3 + 5 * i ELSE 8 * i

\* C20: every QDS byte the encoder produces has the bits 1, 2 and 3 equal to
\* 0 and carries blocked, substituted, not topical and invalid in the bits
\* 4, 5, 6 and 7; in every M_ME_NC_1 element bit 0 (overflow) is 0.  Stated
\* for wrap_quality_descriptor, for the encoders of one element and for the
\* elements wrap_information_object lays out.
C20_QualityDescriptorBits ==
    /\ (Called("wrap_quality_descriptor") /\ ret.k = "bytes")
       => /\ Len(ret.v) = 1
          /\ Carries(ret.v[1], <<call.blocked, call.substituted, call.not_topical, call.invalid>>)
          /\ ret.v[1] % 2 = 1 <=> Eq(call.overflow, 1)
    /\ (Called("wrap_information_object_m_bo_na_1") /\ ret.k = "bytes")
       => Carries(ret.v[5], Bits(call.message.v[2]))
    /\ (Called("wrap_information_object_m_me_nc_1") /\ ret.k = "bytes")
       => /\ Len(ret.v) = 5
          /\ Carries(ret.v[5], Bits(call.message.v[2]))
          /\ ret.v[5] % 2 = 0
    /\ (/\ Called("wrap_information_object") /\ ret.k = "bytes" /\ Len(ret.v) > 0
        /\ call.type_id.v \in {M_BO_NA_1, M_ME_NC_1})
       => \A i \in 1..Len(call.message.v) :
            LET qds == ret.v[QdsAt((call.vsq.v \div 128) % 2, i)] IN
            /\ Carries(qds, Bits(call.message.v[i].v[2]))
            /\ call.type_id.v = M_ME_NC_1 => qds % 2 = 0

\* a measured value with all four quality bits set: QDS 0xF0
C20_Witness ==
    /\ Called("wrap_information_object_m_me_nc_1")
    /\ call.message = ME(F_3_4, Q(1, 1, 1, 1))
    /\ ret = PyBytes(<<154, 153, 89, 64, 240>>)

---------------------------------------------------------------------------
(* Claims about single fields, the counter and the reads of the decoder *)

\* C21: for every state in {0,1} and qoc in [0,63], unwrap_single_command
\* applied to the byte wrap_single_command(state, qoc) produces returns
\* (state, (qoc >> 1, qoc & 1)): the state bit, the 5-bit qualifier and the
\* S/E bit the caller gave; bit 1 of the produced byte is always 0.
C21_SingleCommandRoundTrip ==
    (/\ Called("wrap_single_command")
     /\ IsBit(call.single_command_state)
     /\ IsIn(call.qualifier_of_command, 0, 63))
    => /\ ret.k = "bytes" /\ Len(ret.v) = 1
       /\ unwrap_single_command(PyInt(ret.v[1]))
            = PyTuple(<<call.single_command_state,
                        PyTuple(<<PyInt(call.qualifier_of_command.v \div 2),
                                  PyInt(call.qualifier_of_command.v % 2)>>)>>)
       /\ (ret.v[1] \div 2) % 2 = 0

\* state 1, qualifier 31, S/E 1: the byte 0xFD
C21_Witness ==
    /\ Called("wrap_single_command")
    /\ call.single_command_state = PyInt(1) /\ call.qualifier_of_command = PyInt(63)
    /\ ret = PyBytes(<<253>>)
    /\ unwrap_single_command(PyInt(253)) = PyTuple(<<PyInt(1), PyTuple(<<PyInt(31), PyInt(1)>>)>>)

\* C22 (as documented): unwrap_header returns the declared length L exactly
\* when the header is a byte string of 2 bytes whose first byte is 0x68 and
\* L is at most 253; in every other case it returns an error: the size error
\* when the header is not 2 bytes long, the magic error when the start byte
\* is not 0x68.
C22_HeaderLengthAtMost253 ==
    Called("unwrap_header") =>
        LET h == call.header IN
        IF h.k = "bytes" /\ Len(h.v) = 2 /\ h.v[1] = 104 /\ h.v[2] <= 253
        THEN ret = PyInt(h.v[2])
        ELSE /\ IsStr(ret)
             /\ (h.k = "bytes" /\ Len(h.v) # 2)
                => ret = PyStr("ERROR: The APDU header has to be exactly 2 bytes long.")
             /\ (h.k = "bytes" /\ Len(h.v) = 2 /\ h.v[1] # 104)
                => ret = PyStr("ERROR: The APDU has to start with a 68H.")

RangeError == PyStr("ERROR: Information object address has to be an integer between 0 and 16777215.")

\* C23: set_information_object_address(v) replaces the counter with v when v
\* is an integer, whatever its value, and leaves the counter as it was when
\* v is not an integer; when the counter holds a value outside
\* [0, 16777215], the next emission of an IOA returns the range error and
\* does not change the counter.
C23_OverrideTakesAnyInteger ==
    /\ Called("set_information_object_address")
       => /\ information_object_address
               = (IF call.information_object_address.k = "int"
                  THEN call.information_object_address.v ELSE pre)
          /\ emitted = <<>>
    /\ (Called("wrap_information_object_address") /\ (pre < 0 \/ pre > 16777215))
       => /\ ret = RangeError
          /\ information_object_address = pre
          /\ emitted = <<>>

\* the counter 7 has been replaced by -1
C23_Witness ==
    /\ Called("set_information_object_address")
    /\ call.information_object_address = PyInt(-1)
    /\ pre = 7
    /\ information_object_address = -1

\* C24 (as documented): the operations of the encoder signal invalid input by
\* returning an ERROR value and never fail abnormally; in particular
\* wrap_frame('u-frame', f, _) with an f that is not a string, and so
\* create_apdu('u-frame', ...) with its default ssn = 0, returns frame bytes
\* or an ERROR value.
C24_ErrorsAreReturned ==
    (Called("wrap_frame") \/ Called("create_apdu")) => ret.k \in {"bytes", "str"}

\* the little-endian value of the three bytes of buffer from offset on
LittleEndian3(buffer, offset) ==
    byte_at(buffer, offset) + 256 * byte_at(buffer, offset + 1) + 65536 * byte_at(buffer, offset + 2)

\* the IOAs in a list unwrap_information_objects returned are those that lie
\* in the region of buffer that starts at offset
AddressesFrom(type_id, sq, objects, buffer, offset) ==
    IF type_id \in {7, 13}
    THEN IF sq = 1
         THEN objects[1] = PyInt(LittleEndian3(buffer, offset))
         ELSE \A i \in 1..Len(objects) :
                objects[i].v[1] = PyInt(LittleEndian3(buffer, offset + 8 * (i - 1)))
    ELSE IF type_id = 102
    THEN objects[1] = PyInt(LittleEndian3(buffer, offset))
    ELSE objects[1].v[1] = PyInt(LittleEndian3(buffer, offset))

\* C26 (as documented): for every type and both SQ values, each IOA that
\* unwrap_information_objects returns is the little-endian value of the three
\* bytes where that IOA lies in the region: at offset for SQ=1 and for the
\* command types, at the start of each 8-byte element for SQ=0; also when the
\* region does not start at byte 0 of the buffer, as when unwrap_apdu passes
\* the offset 10.
C26_AddressesAtTheOffset ==
    /\ (ObjectsDecoded /\ ret.k = "list" /\ can_unpack(call.asdu.v, call.offset.v, 3))
       => AddressesFrom(call.type_id.v, call.sequence.v, ret.v, call.asdu.v, call.offset.v)
    /\ (Called("unwrap_apdu") /\ ret.k = "tuple" /\ ret.v[7].k = "list")
       => AddressesFrom(byte_at(call.apdu.v, 4), ret.v[3].v[1].v, ret.v[7].v, call.apdu.v, 10)

\* C27 (as documented): a call of wrap_information_object, wrap_asdu or
\* create_apdu that returns an ERROR value leaves the IOA counter at the
\* value it had before the call: a failed encoding consumes no addresses.
C27_FailureConsumesNoAddress ==
    (/\ Called("wrap_information_object") \/ Called("wrap_asdu") \/ Called("create_apdu")
     /\ IsStr(ret))
    => /\ information_object_address = pre
       /\ emitted = <<>>

\* C30 (as documented): unwrap_apdu never reads a byte position at or beyond
\* the end of the byte string it was given: for every byte string and every
\* declared length >= 10, when the bytes are fewer than the header, the type
\* and the element count require, it returns an ERROR value instead of
\* failing.
C30_NoReadBeyondTheEnd ==
    (/\ Called("unwrap_apdu")
     /\ call.apdu.k = "bytes"
     /\ call.length.k = "int" /\ call.length.v >= 10)
    => ret # PyRaise("struct.error")

\* C28: on one encoder whose counter was never overridden, the address ranges
\* of the ASDUs encoded so far are pairwise disjoint: an ASDU given the first
\* IOA a that covers n addresses holds a..a+n-1 (with SQ = 1 the n elements
\* follow the one IOA a), and a later ASDU starts after that range.
C28_RangesAreDisjoint ==
    ~overridden =>
        \A i, j \in 1..Len(produced) :
            i < j => produced[i].first + produced[i].count <= produced[j].first

\* the call just made is one that emits an IOA when the counter is in range:
\* on a new encoder it returns bytes and advances the counter
EmitsInRange ==
    /\ call.f \in {"wrap_information_object_address", "wrap_information_object",
                   "wrap_asdu", "create_apdu"}
    /\ LET r == Apply([information_object_address |-> 0, emitted |-> <<>>], call)
       IN r.ret.k = "bytes" /\ r.self.information_object_address > 0

\* an operation has ended that started with the counter past the last address
\* and never overridden
PastTheLast == ~overridden /\ pc = "done" /\ pre = LastAddress + 1

C29_AtTheLimit ==
    /\ ~overridden => information_object_address <= LastAddress + 1
    /\ (~overridden /\ emitted # <<>> /\ emitted[Len(emitted)] = <<255, 255, 255>>)
           => information_object_address = LastAddress + 1
    /\ (PastTheLast /\ call.f # "set_information_object_address")
           => information_object_address = pre
    /\ (PastTheLast /\ EmitsInRange) => ret = RangeError /\ information_object_address = pre

C29_NeverDecreases == ~overridden' => information_object_address' >= information_object_address

\* C29: while the counter is not overridden it never decreases and never
\* starts again at 0: once the IOA FF FF FF (16777215) is emitted it is
\* 16777216 and stays there, and every call that emits an IOA when the counter
\* is in range (an IOA emission, an encoding of an ASDU with at least one
\* element) then returns the range error.
C29_CounterStopsAtTheLimit == [](C29_AtTheLimit) /\ [][C29_NeverDecreases]_vars

\* an encoding of two elements has emitted the last address, and the next
\* encoding of an ASDU returned the range error
C29_Witness ==
    /\ PastTheLast /\ EmitsInRange
    /\ call.f \in {"wrap_information_object", "wrap_asdu", "create_apdu"}
    /\ emitted # <<>> /\ emitted[Len(emitted)] = <<255, 255, 255>>
    /\ ret = RangeError

\* the IOAs 0, 1, 2, ... in this order, as many as the encoder has emitted,
\* and the counter after them
CountsAlone(self) ==
    /\ self.information_object_address = Len(self.emitted)
    /\ \A k \in 1..Len(self.emitted) : self.emitted[k] = ioa_bytes(k - 1)

\* the calls flow i has made, in their order
CallsOf(i) == SelectSeq(made, LAMBDA m : m.flow = i)

\* An encoder that runs alone: the calls ms made one after the other on the
\* encoder self and nothing else. What each call returned, and the encoder
\* after the last.
RECURSIVE Alone(_, _, _)
AloneNext(ms, r, rets) == Alone(Tail(ms), r.self, Append(rets, r.ret))
Alone(ms, self, rets) ==
    IF ms = <<>> THEN [self |-> self, rets |-> rets]
    ELSE AloneNext(ms, Apply(self, Head(ms).call), rets)

\* this step is a call of a flow, and the encoder of the other flow is after
\* it as it was before
OtherUntouched ==
    \A i \in {1, 2} :
        (steps' = steps + 1 /\ call'.flow = i) => Instance(3 - i)' = Instance(3 - i)

\* the encoder of flow i holds, and flow i was returned, what an encoder
\* holds and returns that was made new and given the calls of flow i alone
AsIfAlone ==
    \A i \in {1, 2} :
        LET alone == Alone(CallsOf(i), Fresh, <<>>)
        IN  /\ Instance(i) = alone.self
            /\ [k \in 1..Len(CallsOf(i)) |-> CallsOf(i)[k].ret] = alone.rets

====
